---- MODULE Spec2Model ----
(***************************************************************************)
(* Credential pool manager (src/src/auth/token_manager.js), upstream        *)
(* request executor and stream transcoder (src/src/api/client.js), and the *)
(* two HTTP endpoints that call them (src/unnamed/part_001).               *)
(*                                                                         *)
(* token_manager.js holds two definitions of class TokenManager.  The      *)
(* first (lines 12-394) keeps a cooldown map; the second (lines 409-682)   *)
(* has no cooldowns and adds getTokenCount / getTokenByIndex, the only     *)
(* methods client.js calls.  classDef says which of the two is the class   *)
(* in effect; operators of the second one carry the suffix 2.              *)
(*                                                                         *)
(* Times are milliseconds, as Date.now() gives them.  Array indices are    *)
(* 0-based as in the source; sequences are 1-based, hence the "+ 1".       *)
(***************************************************************************)
EXTENDS Integers, Sequences, FiniteSets, TLC

\* ------------------------------------------------------------- bounds
MaxTokens == 3          \* rows in the credential source
MaxOps == 3             \* calls made on the manager in one behaviour
T0 == 1000000           \* Date.now() at construction
MaxElapsed == 60000    \* the clock stops at T0 + MaxElapsed
MaxRequests == 1        \* HTTP requests served in one behaviour
ServeTokens == 2        \* rows in the credential source when requests are served
MaxReads == 2           \* reads that yield a chunk, in one request
MaxLines == 3           \* lines read in one request
MaxChunkLines == 2      \* lines in one chunk
MaxLineParts == 2       \* parts in one data line
MaxParts == 2           \* parts read in one request

\* ------------------------------------------------- program constants
loadInterval == 60000
cooldownDuration == 300000
shortCooldown == 60000
expirySkew == 300000
grantedExpiresIn == 3599

Keys == 1..MaxTokens
NoKey == 0
Null == 0               \* a null token reference (row ids start at 1)

\* status codes a failed exchange or upstream call can carry
FailStatuses == {403, 429, 500}
\* what the upstream answers to tryRequestWithToken
UpstreamStatuses == {200, 401, 429, 500}

VARIABLES
    classDef,        \* 1 or 2: which TokenManager definition is in effect
    envSet,          \* some ACCOUNTS_JSON* environment variable is set
    srcOk,           \* the source (file or env var) reads and parses
    store,           \* rows of the source: file content, or env content
    objs,            \* the objects created by the last load, by row id
    cachedData,      \* this.cachedData, as row ids into objs
    tokens,          \* this.tokens, as row ids into objs
    currentIndex,    \* this.currentIndex
    lastLoadTime,    \* this.lastLoadTime
    useEnvAccounts,  \* this.useEnvAccounts
    tokenCooldowns,  \* this.tokenCooldowns: key -> cooldownUntil, 0 = no entry
    usageStats,      \* this.usageStats: key -> requests
    now,             \* Date.now()
    call,            \* the asynchronous call in progress, or idle
    ret,             \* what the last completed call returned (observation)
    rr,              \* consecutive plain getToken results (observation)
    ops,             \* calls made so far
    recomp,          \* inputs of the last eligibility recomputation (observation)
    res,             \* the HTTP response: headersSent, what was written, ended
    handler,         \* the route handler in progress and its local variables
    psr,             \* processStreamResponse's locals: thinkingStarted, toolCalls
    events,          \* what the callback was called with, in order (observation)
    sent,            \* the chunks read from the response bodies (observation)
    peer,            \* the call of a second caller in progress, or idle
    hist             \* records given to callers, keys disabled (observation)

serveVars == <<res, handler, psr, events, sent, peer, hist>>

vars == <<classDef, envSet, srcOk, store, objs, cachedData, tokens, currentIndex,
          lastLoadTime, useEnvAccounts, tokenCooldowns, usageStats, now, call,
          ret, rr, ops, recomp, res, handler, psr, events, sent, peer, hist>>

\* ------------------------------------------------------------ helpers
Range(s) == {s[i] : i \in 1..Len(s)}
Ids(n) == [i \in 1..n |-> i]

NoRecomp == [valid |-> FALSE, at |-> 0, cd |-> [k \in Keys |-> 0], enabled |-> {}]

\* the manager's fields as one value, so that a method is a function on it
TM == [tokens |-> tokens, currentIndex |-> currentIndex,
       lastLoadTime |-> lastLoadTime, cachedData |-> cachedData, objs |-> objs,
       usageStats |-> usageStats, useEnvAccounts |-> useEnvAccounts,
       tokenCooldowns |-> tokenCooldowns, store |-> store, recomp |-> NoRecomp]

SetTM(m) ==
    /\ tokens' = m.tokens
    /\ currentIndex' = m.currentIndex
    /\ lastLoadTime' = m.lastLoadTime
    /\ cachedData' = m.cachedData
    /\ objs' = m.objs
    /\ usageStats' = m.usageStats
    /\ useEnvAccounts' = m.useEnvAccounts
    /\ tokenCooldowns' = m.tokenCooldowns
    /\ store' = m.store
    /\ recomp' = m.recomp

NoRet == [op |-> "none"]
NoHre == [status |-> 0, usedKey |-> 0, since |-> 0]
Idle == [pc |-> "idle"]

\* ------------------------------------------------ TokenManager, first
\* the boundary on the wrong side: Date.now() > expiresAt - 300000
MutIsExpiredExclusive(token, t) ==
    IF token.timestamp = 0 \/ token.expires_in = 0 THEN TRUE
    ELSE t > token.timestamp + token.expires_in * 1000 - expirySkew

\* isExpired(token) at time t
isExpired(token, t) ==
    IF token.timestamp = 0 \/ token.expires_in = 0 THEN TRUE
    ELSE t >= token.timestamp + token.expires_in * 1000 - expirySkew

\* the filter with the boundary on the wrong side: now <= cooldownUntil
MutInCooldownInclusive(cd, key, t) == cd[key] # 0 /\ t <= cd[key]

\* the filter callback of loadTokens: is the row kept, given the cooldown map
InCooldown(cd, key, t) == cd[key] # 0 /\ t < cd[key]

Eligible(m, arr, id, t) ==
    /\ arr[id].enable
    /\ ~InCooldown(m.tokenCooldowns, arr[id].refresh_token, t)

\* the entries the filter deletes: expired entries of enabled rows
SweptCooldowns(m, arr, t) ==
    [k \in Keys |->
        IF /\ m.tokenCooldowns[k] # 0
           /\ t >= m.tokenCooldowns[k]
           /\ \E id \in 1..Len(arr) : arr[id].enable /\ arr[id].refresh_token = k
        THEN 0 ELSE m.tokenCooldowns[k]]

\* loadTokens without "Keep currentIndex in bounds" (lines 124-127)
MutRecomputeNoClamp(m, arr, t) ==
    LET toks == SelectSeq(Ids(Len(arr)), LAMBDA id : Eligible(m, arr, id, t))
    IN [m EXCEPT !.useEnvAccounts = envSet,
                 !.objs = arr,
                 !.cachedData = Ids(Len(arr)),
                 !.tokens = toks,
                 !.tokenCooldowns = SweptCooldowns(m, arr, t),
                 !.lastLoadTime = t,
                 !.recomp = [valid |-> TRUE, at |-> t, cd |-> m.tokenCooldowns,
                             enabled |-> {id \in 1..Len(arr) : arr[id].enable}]]

\* the body of loadTokens past the cache test, with tokenArray read
Recompute(m, arr, t) ==
    LET toks == SelectSeq(Ids(Len(arr)), LAMBDA id : Eligible(m, arr, id, t))
    IN [m EXCEPT !.useEnvAccounts = envSet,
                 !.objs = arr,
                 !.cachedData = Ids(Len(arr)),
                 !.tokens = toks,
                 !.tokenCooldowns = SweptCooldowns(m, arr, t),
                 !.currentIndex = IF m.currentIndex >= Len(toks) THEN 0
                                  ELSE m.currentIndex,
                 !.lastLoadTime = t,
                 !.recomp = [valid |-> TRUE, at |-> t, cd |-> m.tokenCooldowns,
                             enabled |-> {id \in 1..Len(arr) : arr[id].enable}]]

loadTokens(m, t) ==
    IF t - m.lastLoadTime < loadInterval /\ Len(m.tokens) > 0 THEN m
    ELSE IF envSet THEN Recompute(m, IF srcOk THEN m.store ELSE <<>>, t)
    ELSE IF ~srcOk THEN [m EXCEPT !.tokens = <<>>, !.recomp = NoRecomp]
    ELSE Recompute(m, m.store, t)

forceReload(m, t) == loadTokens([m EXCEPT !.lastLoadTime = 0], t)

setCooldown(m, key, durationMs, t) ==
    [m EXCEPT !.tokenCooldowns[key] = t + durationMs]

\* index of the first row of allTokens with the key, 0 if none (findIndex)
FindIndex(m, rows, key) ==
    IF \E i \in 1..Len(rows) : m.objs[rows[i]].refresh_token = key
    THEN CHOOSE i \in 1..Len(rows) :
            /\ m.objs[rows[i]].refresh_token = key
            /\ \A j \in 1..(i - 1) : m.objs[rows[j]].refresh_token # key
    ELSE 0

RECURSIVE SaveRows(_, _, _)
SaveRows(m, rows, i) ==
    IF i > Len(m.tokens) THEN rows
    ELSE LET ix == FindIndex(m, rows, m.objs[m.tokens[i]].refresh_token)
         IN SaveRows(m, IF ix # 0 THEN [rows EXCEPT ![ix] = m.tokens[i]] ELSE rows,
                     i + 1)

\* only the eligible records are written: the other rows are dropped
MutSaveToFileEligibleOnly(m) ==
    IF m.useEnvAccounts THEN m
    ELSE IF ~srcOk THEN [m EXCEPT !.cachedData = m.tokens]
    ELSE [m EXCEPT !.cachedData = m.tokens,
                   !.store = [i \in 1..Len(m.tokens) |-> m.objs[m.tokens[i]]]]

\* allTokens is this.cachedData itself, so the rows are replaced in place even
\* when the write then throws (srcOk false: the file cannot be read or written)
saveToFile(m) ==
    IF m.useEnvAccounts THEN m
    ELSE LET rows == SaveRows(m, m.cachedData, 1)
         IN IF ~srcOk THEN [m EXCEPT !.cachedData = rows]
            ELSE [m EXCEPT !.cachedData = rows,
                           !.store = [i \in 1..Len(rows) |-> m.objs[rows[i]]]]

recordUsage(m, key) == [m EXCEPT !.usageStats[key] = @ + 1]

\* the assignments of refreshToken on response.ok, then saveToFile
Refreshed(m, id, t) ==
    saveToFile([m EXCEPT !.objs[id].access_token = m.objs[id].refresh_token * 10 + 1,
                         !.objs[id].expires_in = grantedExpiresIn,
                         !.objs[id].timestamp = t])

disableToken(m, id, t) ==
    loadTokens(saveToFile([m EXCEPT !.objs[id].enable = FALSE]), t)

\* NaN, what x % 0 gives in JavaScript
NaN == 0 - 1

\* the cursor left where it was
MutAdvanceCursorStuck(m) == m

\* this.currentIndex = (this.currentIndex + 1) % this.tokens.length
AdvanceCursor(m) ==
    [m EXCEPT !.currentIndex = IF Len(m.tokens) = 0 \/ m.currentIndex = NaN THEN NaN
                               ELSE (m.currentIndex + 1) % Len(m.tokens)]

\* every failure given the default cooldown
MutCooldownForFlat(s) == cooldownDuration

\* the cooldown getToken's catch block picks for a failure with status s
CooldownFor(s) ==
    IF s = 403 THEN cooldownDuration
    ELSE IF s = 429 THEN cooldownDuration * 2
    ELSE shortCooldown

KeyOf(m, id) == IF id = Null THEN NoKey ELSE m.objs[id].refresh_token

\* The call's observation record when it returns `id` (Null for null).
Returned(c, m, id) ==
    [op |-> c.op, def |-> c.def, result |-> id, key |-> KeyOf(m, id),
     pre |-> c.pre, post |-> m.currentIndex, elig0 |-> c.elig0,
     allExpired |-> c.allExpired, log |-> c.log, plain |-> c.log = <<>>,
     pool |-> m.tokens, at |-> c.at, start |-> c.start, hre |-> c.hre]

\* the loop of the first getToken ending like the second one's: the first
\* record is returned when every refresh failed
MutGtLoopFallback(m, c, t) ==
    IF c.attempts < Len(m.tokens) /\ m.currentIndex + 1 \notin 1..Len(m.tokens)
    THEN [m |-> m, call |-> Idle, ret |-> Returned(c, m, Null)]
    ELSE IF c.attempts < Len(m.tokens)
    THEN LET id == m.tokens[m.currentIndex + 1]
         IN IF isExpired(m.objs[id], t)
            THEN [m |-> m, call |-> [c EXCEPT !.pc = "gt_refresh", !.cur = id],
                  ret |-> NoRet]
            ELSE LET m1 == recordUsage(AdvanceCursor(m), KeyOf(m, id))
                 IN [m |-> m1, call |-> Idle,
                     ret |-> Returned([c EXCEPT !.at = m.currentIndex], m1, id)]
    ELSE [m |-> m, call |-> Idle, ret |-> Returned(c, m, m.tokens[1])]

\* getToken's while loop from its head (line 246) up to the next await or
\* return: the outcome is the manager, the call state and the observation.
\* With the cursor outside the array, this.tokens[this.currentIndex] is
\* undefined and token._source (line 249) throws outside the try: the call
\* rejects, no token is given.
GtLoop(m, c, t) ==
    IF c.attempts < Len(m.tokens) /\ m.currentIndex + 1 \notin 1..Len(m.tokens)
    THEN [m |-> m, call |-> Idle, ret |-> Returned(c, m, Null)]
    ELSE IF c.attempts < Len(m.tokens)
    THEN LET id == m.tokens[m.currentIndex + 1]
         IN IF isExpired(m.objs[id], t)
            THEN [m |-> m, call |-> [c EXCEPT !.pc = "gt_refresh", !.cur = id],
                  ret |-> NoRet]
            ELSE LET m1 == recordUsage(AdvanceCursor(m), KeyOf(m, id))
                 IN [m |-> m1, call |-> Idle,
                     ret |-> Returned([c EXCEPT !.at = m.currentIndex], m1, id)]
    ELSE [m |-> m, call |-> Idle, ret |-> Returned(c, m, Null)]

\* getToken from its entry (line 229) up to the first await or return
GtEnter(m, hre, t) ==
    LET m1 == forceReload(m, t)
        c == [pc |-> "gt", op |-> IF hre = NoHre THEN "getToken"
                                  ELSE "handleRequestError",
              def |-> 1, cur |-> Null, attempts |-> 0,
              pre |-> m.currentIndex, elig0 |-> m1.tokens,
              allExpired |-> \A i \in 1..Len(m1.tokens) :
                                isExpired(m1.objs[m1.tokens[i]], t),
              log |-> <<>>, at |-> m1.currentIndex, start |-> m1.currentIndex,
              hre |-> hre]
    IN IF Len(m1.tokens) = 0
       THEN [m |-> m1, call |-> Idle, ret |-> Returned(c, m1, Null)]
       ELSE GtLoop(m1, c, t)

\* the awaited refreshToken resolved: lines 256-263
GtRefreshOk(m, c, t) ==
    LET id == c.cur
        m1 == recordUsage(AdvanceCursor(Refreshed(m, id, t)), KeyOf(m, id))
        c1 == [c EXCEPT !.log = Append(@, [id |-> id, ok |-> TRUE, status |-> 200,
                                           at |-> t, until |-> 0]),
                        !.at = m.currentIndex]
    IN [m |-> m1, call |-> Idle, ret |-> Returned(c1, m1, id)]

\* the awaited refreshToken threw with status s: lines 264-297, then the loop
GtRefreshFail(m, c, s, t) ==
    LET id == c.cur
        key == KeyOf(m, id)
        m1 == setCooldown(m, key, CooldownFor(s), t)
        m2 == forceReload(AdvanceCursor(m1), t)
        c1 == [c EXCEPT !.attempts = @ + 1, !.cur = Null,
                        !.log = Append(@, [id |-> id, ok |-> FALSE, status |-> s,
                                           at |-> t,
                                           until |-> m1.tokenCooldowns[key]])]
    IN IF Len(m2.tokens) = 0
       THEN [m |-> m2, call |-> Idle, ret |-> Returned(c1, m2, Null)]
       ELSE GtLoop([m2 EXCEPT !.currentIndex =
                        IF @ >= Len(m2.tokens) THEN 0 ELSE @], c1, t)

\* this.tokens.find(t => t.access_token === currentAccessToken), Null if none
FindByAccessToken(m, accessToken) ==
    LET hit == {i \in 1..Len(m.tokens) :
                    m.objs[m.tokens[i]].access_token = accessToken}
    IN IF hit = {} THEN Null
       ELSE m.tokens[CHOOSE i \in hit : \A j \in hit : i <= j]

\* handleRequestError (lines 348-366) up to the first await of the getToken it
\* calls, or to its `return null`
handleRequestError(m, s, accessToken, t) ==
    LET usedToken == FindByAccessToken(m, accessToken)
        hre == [status |-> s, usedKey |-> KeyOf(m, usedToken), since |-> t]
    IN IF s = 403 \/ s = 429
       THEN GtEnter(IF usedToken = Null THEN m
                    ELSE setCooldown(m, KeyOf(m, usedToken),
                                     IF s = 429 THEN cooldownDuration * 2
                                     ELSE cooldownDuration, t),
                    hre, t)
       ELSE [m |-> m, call |-> Idle,
             ret |-> [op |-> "handleRequestError", def |-> 1, result |-> Null,
                      log |-> <<>>, hre |-> hre]]

\* ----------------------------------------------- TokenManager, second
\* the catch of lines 505-508 leaving the list as it was
MutLoadTokens2KeepOnFailure(m, t) ==
    IF t - m.lastLoadTime < loadInterval /\ Len(m.tokens) > 0 THEN m
    ELSE IF ~srcOk THEN m
    ELSE LET arr == m.store
             toks == SelectSeq(Ids(Len(arr)), LAMBDA id : arr[id].enable)
         IN [m EXCEPT !.useEnvAccounts = envSet,
                      !.objs = arr,
                      !.cachedData = Ids(Len(arr)),
                      !.tokens = toks,
                      !.currentIndex = IF m.currentIndex >= Len(toks) THEN 0
                                       ELSE m.currentIndex,
                      !.lastLoadTime = t]

\* loadTokens of the second definition: no cooldown filter (line 493)
loadTokens2(m, t) ==
    IF t - m.lastLoadTime < loadInterval /\ Len(m.tokens) > 0 THEN m
    ELSE IF ~envSet /\ ~srcOk THEN [m EXCEPT !.tokens = <<>>]
    ELSE LET arr == IF srcOk THEN m.store ELSE <<>>
             toks == SelectSeq(Ids(Len(arr)), LAMBDA id : arr[id].enable)
         IN [m EXCEPT !.useEnvAccounts = envSet,
                      !.objs = arr,
                      !.cachedData = Ids(Len(arr)),
                      !.tokens = toks,
                      !.currentIndex = IF m.currentIndex >= Len(toks) THEN 0
                                       ELSE m.currentIndex,
                      !.lastLoadTime = t]

\* the for loop of getToken (line 582) from its head up to the next await or
\* return; past the loop, the fallback of lines 607-613
Gt2Loop(m, c, t) ==
    IF c.attempts < Len(m.tokens)
    THEN LET id == m.tokens[m.currentIndex + 1]
             m1 == AdvanceCursor(m)
         IN IF isExpired(m.objs[id], t)
            THEN [m |-> m1, call |-> [c EXCEPT !.pc = "gt2_refresh", !.cur = id,
                                               !.at = m.currentIndex],
                  ret |-> NoRet]
            ELSE LET m2 == recordUsage(m1, KeyOf(m, id))
                 IN [m |-> m2, call |-> Idle,
                     ret |-> Returned([c EXCEPT !.at = m.currentIndex], m2, id)]
    ELSE [m |-> m, call |-> Idle,
          ret |-> Returned(c, m, IF Len(m.tokens) > 0 THEN m.tokens[1] ELSE Null)]

Gt2Enter(m, t) ==
    LET m1 == loadTokens2(m, t)
        c == [pc |-> "gt2", op |-> "getToken", def |-> 2, cur |-> Null,
              attempts |-> 0, pre |-> m.currentIndex, elig0 |-> m1.tokens,
              allExpired |-> \A i \in 1..Len(m1.tokens) :
                                isExpired(m1.objs[m1.tokens[i]], t),
              log |-> <<>>, at |-> m1.currentIndex, start |-> m1.currentIndex,
              hre |-> NoHre]
    IN IF Len(m1.tokens) = 0
       THEN [m |-> m1, call |-> Idle, ret |-> Returned(c, m1, Null)]
       ELSE Gt2Loop(m1, c, t)

Gt2RefreshOk(m, c, t) ==
    LET id == c.cur
        m1 == recordUsage(Refreshed(m, id, t), KeyOf(m, id))
        c1 == [c EXCEPT !.log = Append(@, [id |-> id, ok |-> TRUE, status |-> 200,
                                           at |-> t, until |-> 0])]
    IN [m |-> m1, call |-> Idle, ret |-> Returned(c1, m1, id)]

Gt2RefreshFail(m, c, s, t) ==
    Gt2Loop(m, [c EXCEPT !.attempts = @ + 1, !.cur = Null,
                         !.log = Append(@, [id |-> c.cur, ok |-> FALSE,
                                            status |-> s, at |-> t,
                                            until |-> m.tokenCooldowns[KeyOf(m, c.cur)]])],
            t)

getTokenCount(m, t) == loadTokens2(m, t)

\* ------------------------------------------------------------ client
NoError == 0 - 1

GarDone(c, m, outcome) ==
    [op |-> "generateAssistantResponse", outcome |-> outcome,
     error |-> c.lastError, tries |-> c.tries, total |-> c.total,
     skipped |-> c.skipped, since |-> c.since]

\* generateAssistantResponse from the head of its for loop (line 114) up to
\* the next await, or to the throw of lines 149-154.  getTokenByIndex
\* (lines 657-666) is run for index c.attempt; a null token is `continue`.
RECURSIVE GarLoop(_, _, _)
GarLoop(m, c, t) ==
    IF c.attempt >= c.total
    THEN [m |-> m, call |-> Idle, ret |-> GarDone(c, m, "error")]
    ELSE LET m1 == loadTokens2(m, t)
         IN IF Len(m1.tokens) = 0 \/ c.attempt >= Len(m1.tokens)
            THEN GarLoop(m1, [c EXCEPT !.attempt = @ + 1,
                                       !.skipped = @ \cup {c.attempt}], t)
            ELSE LET id == m1.tokens[c.attempt + 1]
                 IN IF isExpired(m1.objs[id], t)
                    THEN [m |-> m1, ret |-> NoRet,
                          call |-> [c EXCEPT !.pc = "gbi_refresh", !.cur = id]]
                    ELSE [m |-> recordUsage(m1, KeyOf(m1, id)), ret |-> NoRet,
                          call |-> [c EXCEPT !.pc = "request", !.cur = id]]

\* the test of totalTokens === 0 (client.js 105-107) left out
MutGarEnterNoCheck(m, t) ==
    LET m1 == getTokenCount(m, t)
        c == [pc |-> "gar", op |-> "generateAssistantResponse", cur |-> Null,
              total |-> Len(m1.tokens), attempt |-> 0, lastError |-> NoError,
              tries |-> <<>>, skipped |-> {}, since |-> t]
    IN GarLoop(m1, c, t)

GarEnter(m, t) ==
    LET m1 == getTokenCount(m, t)
        c == [pc |-> "gar", op |-> "generateAssistantResponse", cur |-> Null,
              total |-> Len(m1.tokens), attempt |-> 0, lastError |-> NoError,
              tries |-> <<>>, skipped |-> {}, since |-> t]
    IN IF c.total = 0
       THEN [m |-> m1, call |-> Idle, ret |-> GarDone(c, m1, "no token")]
       ELSE GarLoop(m1, c, t)

\* the refresh awaited by getTokenByIndex ended: lines 669-680.  The token is
\* returned either way, and tryRequestWithToken sends the request.
GbiRefreshed(m, c, ok, t) ==
    [m |-> IF ok THEN recordUsage(Refreshed(m, c.cur, t), KeyOf(m, c.cur)) ELSE m,
     call |-> [c EXCEPT !.pc = "request"], ret |-> NoRet]

\* fail-fast: a failure that is not retryable is thrown at once
MutGarResponseFailFast(m, c, s, t) ==
    LET c1 == [c EXCEPT !.tries = Append(@, [index |-> c.attempt, id |-> c.cur,
                                             key |-> KeyOf(m, c.cur),
                                             status |-> s])]
    IN IF s = 200
       THEN [m |-> m, call |-> Idle, ret |-> GarDone(c1, m, "ok")]
       ELSE IF s \notin {429, 403, 500, 503}
       THEN [m |-> m, call |-> Idle,
             ret |-> GarDone([c1 EXCEPT !.lastError = s], m, "error")]
       ELSE GarLoop(m, [c1 EXCEPT !.lastError = s, !.attempt = @ + 1,
                                  !.cur = Null], t)

\* the upstream answered with status s: line 26 and 131-132, or 18-23 and
\* the catch of lines 134-145
GarResponse(m, c, s, t) ==
    LET c1 == [c EXCEPT !.tries = Append(@, [index |-> c.attempt, id |-> c.cur,
                                             key |-> KeyOf(m, c.cur),
                                             status |-> s])]
    IN IF s = 200
       THEN [m |-> m, call |-> Idle, ret |-> GarDone(c1, m, "ok")]
       ELSE GarLoop(m, [c1 EXCEPT !.lastError = s, !.attempt = @ + 1,
                                  !.cur = Null], t)

\* ------------------------------------------------------ transcoder
\* processStreamResponse (client.js 29-100).  Strings are TLA+ strings; "" is
\* the empty string and also stands for an absent (falsy) string field.
NoFunctionCall == [id |-> "", name |-> "", args |-> <<>>]
NoInlineData == [mimeType |-> "", data |-> ""]

\* a part of candidates[0].content.parts; hasText: part.text is not undefined
Part(thought, hasText, text, sig, img, fc) ==
    [thought |-> thought, hasText |-> hasText, text |-> text,
     thought_signature |-> sig, inlineData |-> img, functionCall |-> fc]

ThoughtPart(text) == Part(TRUE, TRUE, text, "", NoInlineData, NoFunctionCall)
TextPart(text) == Part(FALSE, TRUE, text, "", NoInlineData, NoFunctionCall)
CallPart(id, name, args) ==
    Part(FALSE, FALSE, "", "", NoInlineData, [id |-> id, name |-> name, args |-> args])

\* the parts upstream sends: a thought, a text, an empty text, an empty text
\* carrying a signature and an image, two function calls
PartShapes ==
    { ThoughtPart("a"), TextPart("c"), TextPart(""),
      Part(FALSE, TRUE, "", "s1", [mimeType |-> "image/png", data |-> "QQ=="],
           NoFunctionCall),
      CallPart("t1", "search", <<>>),
      CallPart("t2", "fetch", << <<"q", "1">> >>) }

\* JSON.stringify of an object given as <<key, value text>> pairs
RECURSIVE Members(_, _)
Members(args, i) ==
    IF i > Len(args) THEN ""
    ELSE (IF i > 1 THEN "," ELSE "") \o "\"" \o args[i][1] \o "\":" \o args[i][2]
         \o Members(args, i + 1)

Stringify(args) == "{" \o Members(args, 1) \o "}"

\* the three kinds of event the callback is called with
Thinking(content) == [type |-> "thinking", content |-> content]
Text(content) == [type |-> "text", content |-> content]
ToolCallsEvent(toolCalls) == [type |-> "tool_calls", tool_calls |-> toolCalls]

ThinkOpen == "<think>\n"
ThinkClose == "\n</think>\n"

\* callback(ev) while the part at position o = [read, line, part] of the body
\* is processed (the finishReason of a line comes after its last part)
Emit(st, ev, o) ==
    [st EXCEPT !.out = Append(@, [ev |-> ev, read |-> o.read, line |-> o.line,
                                  part |-> o.part])]

\* lines 75-82: the entry pushed on toolCalls for a function call
ToolCall(fc) ==
    [id |-> fc.id, type |-> "function",
     function |-> [name |-> fc.name, arguments |-> Stringify(fc.args)]]

\* lines 60-69: the content of a text part
TextContent(part) ==
    LET c1 == IF part.thought_signature # ""
              THEN part.text \o "\n<!-- thought_signature: "
                       \o part.thought_signature \o " -->"
              ELSE part.text
    IN IF part.inlineData # NoInlineData
       THEN c1 \o "\n![Generated Image](data:"
               \o part.inlineData.mimeType \o ";base64,"
               \o part.inlineData.data \o ")"
       ELSE c1

\* the text part's content is delivered even when it is empty
MutOnPartEmptyText(st, part, o) ==
    IF part.thought = TRUE
    THEN LET s1 == IF ~st.thinkingStarted
                   THEN [Emit(st, Thinking(ThinkOpen), o)
                             EXCEPT !.thinkingStarted = TRUE]
                   ELSE st
         IN Emit(s1, Thinking(part.text), o)
    ELSE IF part.hasText
    THEN LET s1 == IF st.thinkingStarted
                   THEN [Emit(st, Thinking(ThinkClose), o)
                             EXCEPT !.thinkingStarted = FALSE]
                   ELSE st
         IN Emit(s1, Text(TextContent(part)), o)
    ELSE IF part.functionCall # NoFunctionCall
    THEN [st EXCEPT !.toolCalls =
              Append(@, ToolCall(part.functionCall))]
    ELSE st

\* a function call is delivered as it arrives
MutOnPartCallAtOnce(st, part, o) ==
    IF part.thought = TRUE
    THEN LET s1 == IF ~st.thinkingStarted
                   THEN [Emit(st, Thinking(ThinkOpen), o)
                             EXCEPT !.thinkingStarted = TRUE]
                   ELSE st
         IN Emit(s1, Thinking(part.text), o)
    ELSE IF part.hasText
    THEN LET s1 == IF st.thinkingStarted
                   THEN [Emit(st, Thinking(ThinkClose), o)
                             EXCEPT !.thinkingStarted = FALSE]
                   ELSE st
         IN IF TextContent(part) # "" THEN Emit(s1, Text(TextContent(part)), o)
            ELSE s1
    ELSE IF part.functionCall # NoFunctionCall
    THEN Emit(st, ToolCallsEvent(<<ToolCall(part.functionCall)>>),
              o)
    ELSE st

\* a text part does not close the thinking block
MutOnPartNoClose(st, part, o) ==
    IF part.thought = TRUE
    THEN LET s1 == IF ~st.thinkingStarted
                   THEN [Emit(st, Thinking(ThinkOpen), o)
                             EXCEPT !.thinkingStarted = TRUE]
                   ELSE st
         IN Emit(s1, Thinking(part.text), o)
    ELSE IF part.hasText
    THEN IF TextContent(part) # "" THEN Emit(st, Text(TextContent(part)), o)
         ELSE st
    ELSE IF part.functionCall # NoFunctionCall
    THEN [st EXCEPT !.toolCalls =
              Append(@, ToolCall(part.functionCall))]
    ELSE st

\* the body of `for (const part of parts)`: lines 49-83
OnPart(st, part, o) ==
    IF part.thought = TRUE
    THEN LET s1 == IF ~st.thinkingStarted
                   THEN [Emit(st, Thinking(ThinkOpen), o)
                             EXCEPT !.thinkingStarted = TRUE]
                   ELSE st
         IN Emit(s1, Thinking(part.text), o)
    ELSE IF part.hasText
    THEN LET s1 == IF st.thinkingStarted
                   THEN [Emit(st, Thinking(ThinkClose), o)
                             EXCEPT !.thinkingStarted = FALSE]
                   ELSE st
             content == TextContent(part)
         IN IF content # "" THEN Emit(s1, Text(content), o) ELSE s1
    ELSE IF part.functionCall # NoFunctionCall
    THEN [st EXCEPT !.toolCalls =
              Append(@, ToolCall(part.functionCall))]
    ELSE st

\* the parts of a line are processed from the last to the first
RECURSIVE MutOnPartsBackwards(_, _, _, _)
MutOnPartsBackwards(st, parts, i, o) ==
    IF i > Len(parts) THEN st
    ELSE OnPart(MutOnPartsBackwards(st, parts, i + 1, o), parts[i],
                [o EXCEPT !.part = i])

RECURSIVE OnParts(_, _, _, _)
OnParts(st, parts, i, o) ==
    IF i > Len(parts) THEN st
    ELSE OnParts(OnPart(st, parts[i], [o EXCEPT !.part = i]), parts, i + 1, o)

\* the finish signal flushes the buffer, leaving the thinking block open
MutOnFinishNoClose(st, line, o) ==
    IF line.finishReason /\ Len(st.toolCalls) > 0
    THEN [Emit(st, ToolCallsEvent(st.toolCalls), o) EXCEPT !.toolCalls = <<>>]
    ELSE st

\* lines 87-94: the finish signal with buffered tool calls
OnFinish(st, line, o) ==
    IF line.finishReason /\ Len(st.toolCalls) > 0
    THEN LET s1 == IF st.thinkingStarted
                   THEN [Emit(st, Thinking(ThinkClose), o)
                             EXCEPT !.thinkingStarted = FALSE]
                   ELSE st
         IN [Emit(s1, ToolCallsEvent(s1.toolCalls), o) EXCEPT !.toolCalls = <<>>]
    ELSE st

\* a line of a chunk.  prefix: it starts with "data: "; json: what follows
\* parses; cut: the chunk ends inside the line, so that what follows the
\* prefix is the beginning of a JSON text and the rest comes with a later read
\* (without the prefix); parts, finishReason: what the line carries.
DataLine(parts, finishReason) ==
    [prefix |-> TRUE, json |-> TRUE, cut |-> FALSE, parts |-> parts,
     finishReason |-> finishReason]
CutLine(parts, finishReason) ==
    [prefix |-> TRUE, json |-> FALSE, cut |-> TRUE, parts |-> parts,
     finishReason |-> finishReason]
GarbledLine ==
    [prefix |-> TRUE, json |-> FALSE, cut |-> FALSE, parts |-> <<>>,
     finishReason |-> FALSE]
OtherLine ==
    [prefix |-> FALSE, json |-> FALSE, cut |-> FALSE, parts |-> <<>>,
     finishReason |-> FALSE]

\* a line that does not parse aborts the stream's processing state
MutOnLineResetOnError(st, line, o) ==
    IF ~line.prefix THEN st
    ELSE IF ~line.json THEN [st EXCEPT !.thinkingStarted = FALSE, !.toolCalls = <<>>]
    ELSE OnFinish(OnParts(st, line.parts, 1, o), line,
                  [o EXCEPT !.part = Len(line.parts) + 1])

\* one line of chunk.split('\n'): the filter of line 40, then lines 43-97
OnLine(st, line, o) ==
    IF ~line.prefix THEN st
    ELSE IF ~line.json THEN st
    ELSE OnFinish(OnParts(st, line.parts, 1, o), line,
                  [o EXCEPT !.part = Len(line.parts) + 1])

RECURSIVE OnLines(_, _, _, _)
OnLines(st, lines, i, r) ==
    IF i > Len(lines) THEN st
    ELSE OnLines(OnLine(st, lines[i], [read |-> r, line |-> i, part |-> 0]),
                 lines, i + 1, r)

\* the chunk of read number r: lines 39-98
OnChunk(p, chunk, r) ==
    OnLines([thinkingStarted |-> p.thinkingStarted, toolCalls |-> p.toolCalls,
             out |-> <<>>], chunk, 1, r)

\* ------------------------------------------------------ HTTP endpoints
\* POST /v1/chat/completions (part_001 169-291) and POST /v1/messages
\* (part_001 294-530).  A frame is one res.write or res.json; the id, model
\* and created fields of the documents are left out.
NoFinish == "null"      \* finish_reason: null, stop_reason: null
NoDelta == [has |-> "none", content |-> "", tool_calls |-> <<>>]
ContentDelta(content) == [has |-> "content", content |-> content, tool_calls |-> <<>>]
ToolCallsDelta(toolCalls) == [has |-> "tool_calls", content |-> "", tool_calls |-> toolCalls]

\* data: {"object":"chat.completion.chunk","choices":[{delta, finish_reason}]}
ChunkFrame(delta, finish_reason) ==
    [kind |-> "chunk", delta |-> delta, finish_reason |-> finish_reason]
DoneFrame == [kind |-> "done"]          \* data: [DONE]
\* res.status(status).json(body)
JsonFrame(status, body) == [kind |-> "json", status |-> status, body |-> body]
\* event: <type>\ndata: {...}
SseFrame(type, index, block, text, stop_reason, output_tokens) ==
    [kind |-> "sse", type |-> type, index |-> index, block |-> block,
     text |-> text, stop_reason |-> stop_reason, output_tokens |-> output_tokens]

NoRes == [headersSent |-> FALSE, out |-> <<>>, ended |-> FALSE]

NoHandler ==
    [route |-> "none", stream |-> FALSE, settled |-> FALSE,
     hasToolCall |-> FALSE, fullContent |-> "", toolCalls |-> <<>>,
     contentBlockIndex |-> 0, hasToolUse |-> FALSE, thinkingStarted |-> FALSE,
     thinkingBlockIndex |-> 0 - 1, textBlockIndex |-> 0 - 1,
     outputTokens |-> 0, thinkingContent |-> ""]

NoPsr == [thinkingStarted |-> FALSE, toolCalls |-> <<>>]

\* the handler's locals and the response, as one value
HR == [handler |-> handler, res |-> res]

\* res.write(frame)
Write(hr, frame) ==
    [hr EXCEPT !.res.out = Append(@, frame), !.res.headersSent = TRUE]

\* res.json(body), res.status(status).json(body): the document, then the end
Json(hr, status, body) ==
    [Write(hr, JsonFrame(status, body)) EXCEPT !.res.ended = TRUE]

End(hr) == [hr EXCEPT !.res.ended = TRUE]

\* Math.ceil(s.length / 4)
CeilQuarter(s) == (Len(s) + 3) \div 4

\* the callback of the streaming chat route: lines 203-222
ChatStreamCallback(hr, data) ==
    IF data.type = "tool_calls"
    THEN Write([hr EXCEPT !.handler.hasToolCall = TRUE],
               ChunkFrame(ToolCallsDelta(data.tool_calls), NoFinish))
    ELSE Write(hr, ChunkFrame(ContentDelta(data.content), NoFinish))

\* the callback of the non-streaming chat route: lines 236-242
ChatCallback(hr, data) ==
    IF data.type = "tool_calls"
    THEN [hr EXCEPT !.handler.toolCalls = data.tool_calls]
    ELSE [hr EXCEPT !.handler.fullContent = @ \o data.content]

\* the tool_use blocks of one tool_calls event: lines 385-409
RECURSIVE ToolUseBlocks(_, _, _)
ToolUseBlocks(hr, toolCalls, i) ==
    IF i > Len(toolCalls) THEN hr
    ELSE LET tc == toolCalls[i]
             ix == hr.handler.contentBlockIndex
             h1 == Write(hr, SseFrame("content_block_start", ix, "tool_use",
                                      tc.id, NoFinish, 0))
             h2 == Write(h1, SseFrame("content_block_delta", ix, "input_json_delta",
                                      tc.function.arguments, NoFinish, 0))
             h3 == Write(h2, SseFrame("content_block_stop", ix, "", "", NoFinish, 0))
         IN ToolUseBlocks(
                [h3 EXCEPT !.handler.contentBlockIndex = @ + 1,
                           !.handler.outputTokens =
                               @ + CeilQuarter(tc.function.arguments)],
                toolCalls, i + 1)

\* the thinking block is started without contentBlockIndex++ (line 366)
MutMessagesStreamCallbackNoIncrement(hr, data) ==
    LET h == hr.handler
    IN IF data.type = "thinking"
       THEN IF data.content = ThinkOpen
            THEN [Write(hr, SseFrame("content_block_start", h.contentBlockIndex,
                                     "thinking", "", NoFinish, 0))
                     EXCEPT !.handler.thinkingStarted = TRUE,
                            !.handler.thinkingBlockIndex = h.contentBlockIndex]
            ELSE IF data.content = ThinkClose
            THEN [(IF h.thinkingStarted /\ h.thinkingBlockIndex >= 0
                   THEN Write(hr, SseFrame("content_block_stop",
                                           h.thinkingBlockIndex, "", "",
                                           NoFinish, 0))
                   ELSE hr)
                     EXCEPT !.handler.thinkingStarted = FALSE]
            ELSE IF h.thinkingStarted /\ data.content # ""
            THEN [Write(hr, SseFrame("content_block_delta", h.thinkingBlockIndex,
                                     "thinking_delta", data.content, NoFinish, 0))
                     EXCEPT !.handler.outputTokens = @ + CeilQuarter(data.content)]
            ELSE hr
       ELSE IF data.type = "tool_calls"
       THEN ToolUseBlocks([hr EXCEPT !.handler.hasToolUse = TRUE],
                          data.tool_calls, 1)
       ELSE IF data.content # ""
       THEN LET h1 == IF h.textBlockIndex < 0
                      THEN [Write(hr, SseFrame("content_block_start",
                                               h.contentBlockIndex, "text", "",
                                               NoFinish, 0))
                               EXCEPT !.handler.textBlockIndex = h.contentBlockIndex,
                                      !.handler.contentBlockIndex = @ + 1]
                      ELSE hr
            IN [Write(h1, SseFrame("content_block_delta",
                                   h1.handler.textBlockIndex, "text_delta",
                                   data.content, NoFinish, 0))
                   EXCEPT !.handler.outputTokens = @ + CeilQuarter(data.content)]
       ELSE hr

\* the callback of the streaming messages route: lines 355-429
MessagesStreamCallback(hr, data) ==
    LET h == hr.handler
    IN IF data.type = "thinking"
       THEN IF data.content = ThinkOpen
            THEN [Write(hr, SseFrame("content_block_start", h.contentBlockIndex,
                                     "thinking", "", NoFinish, 0))
                     EXCEPT !.handler.thinkingStarted = TRUE,
                            !.handler.thinkingBlockIndex = h.contentBlockIndex,
                            !.handler.contentBlockIndex = @ + 1]
            ELSE IF data.content = ThinkClose
            THEN [(IF h.thinkingStarted /\ h.thinkingBlockIndex >= 0
                   THEN Write(hr, SseFrame("content_block_stop",
                                           h.thinkingBlockIndex, "", "",
                                           NoFinish, 0))
                   ELSE hr)
                     EXCEPT !.handler.thinkingStarted = FALSE]
            ELSE IF h.thinkingStarted /\ data.content # ""
            THEN [Write(hr, SseFrame("content_block_delta", h.thinkingBlockIndex,
                                     "thinking_delta", data.content, NoFinish, 0))
                     EXCEPT !.handler.outputTokens = @ + CeilQuarter(data.content)]
            ELSE hr
       ELSE IF data.type = "tool_calls"
       THEN ToolUseBlocks([hr EXCEPT !.handler.hasToolUse = TRUE],
                          data.tool_calls, 1)
       ELSE IF data.content # ""
       THEN LET h1 == IF h.textBlockIndex < 0
                      THEN [Write(hr, SseFrame("content_block_start",
                                               h.contentBlockIndex, "text", "",
                                               NoFinish, 0))
                               EXCEPT !.handler.textBlockIndex = h.contentBlockIndex,
                                      !.handler.contentBlockIndex = @ + 1]
                      ELSE hr
            IN [Write(h1, SseFrame("content_block_delta",
                                   h1.handler.textBlockIndex, "text_delta",
                                   data.content, NoFinish, 0))
                   EXCEPT !.handler.outputTokens = @ + CeilQuarter(data.content)]
       ELSE hr

\* the callback of the non-streaming messages route: lines 460-474
MessagesCallback(hr, data) ==
    IF data.type = "thinking"
    THEN IF data.content = ThinkOpen
         THEN [hr EXCEPT !.handler.thinkingStarted = TRUE]
         ELSE IF data.content = ThinkClose
         THEN [hr EXCEPT !.handler.thinkingStarted = FALSE]
         ELSE IF hr.handler.thinkingStarted
         THEN [hr EXCEPT !.handler.thinkingContent = @ \o data.content]
         ELSE hr
    ELSE IF data.type = "tool_calls"
    THEN [hr EXCEPT !.handler.toolCalls = data.tool_calls]
    ELSE [hr EXCEPT !.handler.fullContent = @ \o data.content]

\* the callback the route in progress handed to generateAssistantResponse
Callback(hr, data) ==
    IF hr.handler.route = "chat"
    THEN (IF hr.handler.stream THEN ChatStreamCallback(hr, data)
          ELSE ChatCallback(hr, data))
    ELSE (IF hr.handler.stream THEN MessagesStreamCallback(hr, data)
          ELSE MessagesCallback(hr, data))

RECURSIVE Callbacks(_, _, _)
Callbacks(hr, emitted, i) ==
    IF i > Len(emitted) THEN hr
    ELSE Callbacks(Callback(hr, emitted[i].ev), emitted, i + 1)

\* the start of a handler up to its call of generateAssistantResponse:
\* lines 194-201 and 233-235, lines 328-353 and 453-458
RouteEnter(route, stream) ==
    LET hr == [handler |-> [NoHandler EXCEPT !.route = route, !.stream = stream],
               res |-> NoRes]
    IN IF route = "messages" /\ stream
       THEN Write(hr, SseFrame("message_start", 0, "", "", NoFinish, 1))
       ELSE hr

\* the content array of the non-streaming messages document: lines 476-502
MessageContent(h) ==
    (IF h.thinkingContent # ""
     THEN <<[type |-> "thinking", text |-> h.thinkingContent]>> ELSE <<>>)
    \o (IF h.fullContent # ""
        THEN <<[type |-> "text", text |-> h.fullContent]>> ELSE <<>>)
    \o [i \in 1..Len(h.toolCalls) |->
           [type |-> "tool_use", text |-> h.toolCalls[i].id]]

\* the terminal chunk says "stop" whatever was delivered
MutRouteTailAlwaysStop(hr) ==
    LET h == hr.handler
    IN IF h.route = "chat" /\ h.stream
       THEN End(Write(Write(hr, ChunkFrame(NoDelta, "stop")), DoneFrame))
       ELSE hr

\* what follows `await generateAssistantResponse(...)` when it resolves:
\* lines 224-232, 244-259, 431-451, 476-516
RouteTail(hr) ==
    LET h == hr.handler
    IN IF h.route = "chat" /\ h.stream
       THEN End(Write(Write(hr, ChunkFrame(NoDelta,
                                           IF h.hasToolCall THEN "tool_calls"
                                           ELSE "stop")),
                      DoneFrame))
       ELSE IF h.route = "chat"
       THEN Json(hr, 200,
                 [content |-> h.fullContent, tool_calls |-> h.toolCalls,
                  finish_reason |-> IF Len(h.toolCalls) > 0 THEN "tool_calls"
                                    ELSE "stop"])
       ELSE IF h.stream
       THEN LET h1 == IF h.textBlockIndex >= 0
                      THEN Write(hr, SseFrame("content_block_stop",
                                              h.textBlockIndex, "", "", NoFinish, 0))
                      ELSE hr
                h2 == Write(h1, SseFrame("message_delta", 0, "", "",
                                         IF h.hasToolUse THEN "tool_use"
                                         ELSE "end_turn",
                                         h.outputTokens))
            IN End(Write(h2, SseFrame("message_stop", 0, "", "", NoFinish, 0)))
       ELSE Json(hr, 200,
                 [content |-> MessageContent(h),
                  stop_reason |-> IF Len(h.toolCalls) > 0 THEN "tool_use"
                                  ELSE "end_turn",
                  output_tokens |->
                      (Len(h.fullContent) + Len(h.thinkingContent) + 3) \div 4])

\* the catch blocks with the test of res.headersSent left out
MutRouteCatchAlways(hr, message) ==
    LET h == hr.handler
    IN IF h.stream
       THEN End(Write(Write(Write(hr,
                ChunkFrame(ContentDelta("error: " \o message), NoFinish)),
                ChunkFrame(NoDelta, "stop")), DoneFrame))
       ELSE Json(hr, 500, [error |-> message])

\* the catch block of a handler, error.message being `message`:
\* lines 261-290 and 518-529
RouteCatch(hr, message) ==
    LET h == hr.handler
    IN IF hr.res.headersSent THEN hr
       ELSE IF h.route = "chat" /\ h.stream
       THEN End(Write(Write(Write(hr,
                ChunkFrame(ContentDelta("error: " \o message), NoFinish)),
                ChunkFrame(NoDelta, "stop")), DoneFrame))
       ELSE Json(hr, 500, [error |-> message])

\* lastError when reader.read() rejected: an error without a status
StreamError == 0 - 2

\* tryRequestWithToken resolved (status 200): generateAssistantResponse awaits
\* processStreamResponse, which awaits its first read (client.js 128-131,
\* 29-36); or it threw, as in GarResponse
GarResponded(m, c, s, t) ==
    IF s = 200
    THEN [m |-> m, ret |-> NoRet,
          call |-> [c EXCEPT !.pc = "stream",
                             !.tries = Append(@, [index |-> c.attempt, id |-> c.cur,
                                                  key |-> KeyOf(m, c.cur),
                                                  status |-> s])]]
    ELSE GarResponse(m, c, s, t)

\* a failed read ends the call: the error is thrown to the route
MutGarReadFailedThrow(m, c, t) ==
    [m |-> m, call |-> Idle,
     ret |-> GarDone([c EXCEPT !.lastError = StreamError], m, "error")]

\* reader.read() rejected: processStreamResponse throws inside the try of
\* client.js 127-133, the catch of 134-145 goes on with the next index
GarReadFailed(m, c, t) ==
    GarLoop(m, [c EXCEPT !.lastError = StreamError, !.attempt = @ + 1,
                         !.cur = Null], t)

\* reader.read() gave done: processStreamResponse returns and
\* generateAssistantResponse with it (client.js 37, 132)
GarReadDone(m, c, t) == [m |-> m, call |-> Idle, ret |-> GarDone(c, m, "ok")]

\* error.message of what generateAssistantResponse throws
ErrorMessage(r) ==
    IF r.outcome = "no token" THEN "no token available"
    ELSE IF r.error = NoError THEN "all tokens tried"
    ELSE IF r.error = StreamError THEN "stream read failed"
    ELSE "API request failed (" \o ToString(r.error) \o ")"

\* the handler goes on when generateAssistantResponse has resolved or thrown
\* (out.call is idle), and waits otherwise
Settle(hr, out) ==
    IF out.call.pc # "idle" THEN hr
    ELSE [(IF out.ret.outcome = "ok" THEN RouteTail(hr)
           ELSE RouteCatch(hr, ErrorMessage(out.ret)))
             EXCEPT !.handler.settled = TRUE]

\* --------------------------------------------------------------- Init
Row(i, key, en, fresh) ==
    [refresh_token |-> key, access_token |-> i * 10, enable |-> en,
     timestamp |-> IF fresh THEN T0 ELSE 0,
     expires_in |-> IF fresh THEN grantedExpiresIn ELSE 0]

\* the sources considered: up to MaxTokens rows of distinct keys, the first
\* one possibly disabled, the first f of them unexpired and the rest expired
InitStores ==
    UNION {
        { [i \in 1..n |-> Row(i, i, i # off, i <= f)] : off \in 0..1, f \in 0..n }
        : n \in 0..MaxTokens }

\* the sources when requests are served: up to ServeTokens unexpired rows
ServeStores == {[i \in 1..n |-> Row(i, i, TRUE, TRUE)] : n \in 0..ServeTokens}

\* nothing given to a caller yet, nothing disabled
NoHist == [given |-> [k \in Keys |-> 0], disabled |-> {}]

InitWith(defs, envs, stores) ==
    /\ classDef \in defs
    /\ envSet \in envs
    /\ srcOk = TRUE
    /\ store \in stores
    /\ res = NoRes
    /\ handler = NoHandler
    /\ psr = NoPsr
    /\ events = <<>>
    /\ sent = <<>>
    /\ peer = Idle
    /\ hist = NoHist
    /\ now = T0
    /\ call = Idle
    /\ ret = NoRet
    /\ rr = <<>>
    /\ ops = 0
    /\ LET m0 == [tokens |-> <<>>, currentIndex |-> 0, lastLoadTime |-> 0,
                  cachedData |-> <<>>, objs |-> <<>>,
                  usageStats |-> [k \in Keys |-> 0], useEnvAccounts |-> FALSE,
                  tokenCooldowns |-> [k \in Keys |-> 0], store |-> store,
                  recomp |-> NoRecomp]
           m1 == IF classDef = 1 THEN loadTokens(m0, T0) ELSE loadTokens2(m0, T0)
       IN /\ tokens = m1.tokens
          /\ currentIndex = m1.currentIndex
          /\ lastLoadTime = m1.lastLoadTime
          /\ cachedData = m1.cachedData
          /\ objs = m1.objs
          /\ usageStats = m1.usageStats
          /\ useEnvAccounts = m1.useEnvAccounts
          /\ tokenCooldowns = m1.tokenCooldowns
          /\ recomp = m1.recomp

InitAs(defs) == InitWith(defs, BOOLEAN, InitStores)

\* ------------------------------------------------------------ actions
\* consecutive getToken calls that returned an unexpired record of one pool
RRNext(r) ==
    IF r.op = "getToken" /\ r.result # Null /\ r.plain
    THEN LET e == [pool |-> r.pool, before |-> r.at, id |-> r.result,
                   after |-> r.post]
         IN IF rr # <<>> /\ rr[Len(rr)].pool = r.pool
            THEN (IF Len(rr) >= Len(r.pool) THEN Tail(rr) ELSE rr) \o <<e>>
            ELSE <<e>>
    ELSE <<>>

\* an outcome [m, call, ret] becomes the next state of the manager and call
BecomesTM(out) ==
    /\ SetTM(out.m)
    /\ call' = out.call
    /\ ret' = out.ret
    /\ rr' = RRNext(out.ret)
    /\ UNCHANGED <<classDef, envSet, srcOk, now>>

\* the same, for a call that no route handler made
Becomes(out) ==
    /\ BecomesTM(out)
    /\ UNCHANGED serveVars

\* a call is made on the manager
Invoke ==
    /\ call.pc = "idle"
    /\ ops < MaxOps
    /\ ops' = ops + 1

\* a synchronous method: the manager changes, nothing is in progress
Sync(m) ==
    /\ Invoke
    /\ SetTM(m)
    /\ ret' = NoRet
    /\ rr' = <<>>
    /\ UNCHANGED <<classDef, envSet, srcOk, now, call>>
    /\ UNCHANGED serveVars

LoadTokens ==
    /\ classDef = 1
    /\ Sync(loadTokens(TM, now))

ForceReload ==
    /\ classDef = 1
    /\ Sync(forceReload(TM, now))

SetCooldown ==
    /\ classDef = 1
    /\ \E id \in Range(tokens) :
           Sync(setCooldown(TM, KeyOf(TM, id), cooldownDuration, now))

DisableToken ==
    /\ classDef = 1
    /\ \E id \in Range(tokens) : Sync(disableToken(TM, id, now))

GetToken ==
    /\ classDef = 1
    /\ Invoke
    /\ Becomes(GtEnter(TM, NoHre, now))

HandleRequestError ==
    /\ classDef = 1
    /\ Invoke
    /\ \E s \in FailStatuses,
          a \in {objs[id].access_token : id \in Range(tokens)} \cup {0} :
           Becomes(handleRequestError(TM, s, a, now))

RefreshOk ==
    /\ call.pc = "gt_refresh"
    /\ UNCHANGED ops
    /\ Becomes(GtRefreshOk(TM, call, now))

RefreshFail ==
    /\ call.pc = "gt_refresh"
    /\ UNCHANGED ops
    /\ \E s \in FailStatuses : Becomes(GtRefreshFail(TM, call, s, now))

LoadTokens2 ==
    /\ classDef = 2
    /\ Sync(loadTokens2(TM, now))

GetToken2 ==
    /\ classDef = 2
    /\ Invoke
    /\ Becomes(Gt2Enter(TM, now))

Refresh2Ok ==
    /\ call.pc = "gt2_refresh"
    /\ UNCHANGED ops
    /\ Becomes(Gt2RefreshOk(TM, call, now))

Refresh2Fail ==
    /\ call.pc = "gt2_refresh"
    /\ UNCHANGED ops
    /\ \E s \in FailStatuses : Becomes(Gt2RefreshFail(TM, call, s, now))

GenerateAssistantResponse ==
    /\ classDef = 2
    /\ Invoke
    /\ Becomes(GarEnter(TM, now))

GbiRefresh ==
    /\ call.pc = "gbi_refresh"
    /\ UNCHANGED ops
    /\ \E ok \in BOOLEAN : Becomes(GbiRefreshed(TM, call, ok, now))

Response ==
    /\ call.pc = "request"
    /\ UNCHANGED ops
    /\ \E s \in UpstreamStatuses : Becomes(GarResponse(TM, call, s, now))

\* ------------------------------------------------------- environment
\* The clock moves to the next instant at which a comparison of the code
\* changes its outcome (a cooldown ends, the load cache lapses), or to the
\* millisecond before it.
TickTargets ==
    LET ends == {tokenCooldowns[k] : k \in Keys} \cup {lastLoadTime + loadInterval}
    IN {t \in ends \cup {e - 1 : e \in ends} : t > now /\ t <= T0 + MaxElapsed}

Tick ==
    /\ \E t \in TickTargets : now' = t
    /\ ret' = NoRet
    /\ recomp' = NoRecomp
    /\ UNCHANGED <<classDef, envSet, srcOk, store, objs, cachedData, tokens,
                   currentIndex, lastLoadTime, useEnvAccounts, tokenCooldowns,
                   usageStats, call, rr, ops>>
    /\ UNCHANGED serveVars

\* the file (or the environment variable) becomes unreadable, or readable again
SourceFault ==
    /\ Invoke
    /\ srcOk' = ~srcOk
    /\ ret' = NoRet
    /\ recomp' = NoRecomp
    /\ UNCHANGED <<classDef, envSet, store, objs, cachedData, tokens,
                   currentIndex, lastLoadTime, useEnvAccounts, tokenCooldowns,
                   usageStats, now, call, rr>>
    /\ UNCHANGED serveVars

\* the first TokenManager
Init == InitAs({1})

Next ==
    \/ LoadTokens
    \/ ForceReload
    \/ SetCooldown
    \/ DisableToken
    \/ GetToken
    \/ HandleRequestError
    \/ RefreshOk
    \/ RefreshFail
    \/ Tick
    \/ SourceFault

Spec == Init /\ [][Next]_vars

\* the second TokenManager and the client that calls it
InitClient == InitAs({2})

NextClient ==
    \/ LoadTokens2
    \/ GetToken2
    \/ Refresh2Ok
    \/ Refresh2Fail
    \/ GenerateAssistantResponse
    \/ GbiRefresh
    \/ Response
    \/ Tick
    \/ SourceFault

SpecClient == InitClient /\ [][NextClient]_vars

\* either of the two
InitBoth == InitAs({1, 2})

NextBoth == Next \/ NextClient

SpecBoth == InitBoth /\ [][NextBoth]_vars

\* ------------------------------------------- sources of any content
\* the sources whose rows can share a refresh_token: up to MaxTokens rows,
\* each enabled or not, each with one of two keys
AnyStores ==
    UNION {
        { [i \in 1..n |-> Row(i, key[i], en[i], TRUE)] :
              key \in [1..n -> 1..2], en \in [1..n -> BOOLEAN] }
        : n \in 0..MaxTokens }

InitLoad == InitWith({1, 2}, BOOLEAN, AnyStores)

NextLoad ==
    \/ LoadTokens
    \/ ForceReload
    \/ LoadTokens2
    \/ Tick
    \/ SourceFault

\* loadTokens of either TokenManager, on sources of any content
SpecLoad == InitLoad /\ [][NextLoad]_vars

\* ------------------------------------------------- a source that fails
\* getTokenCount (lines 651-654) called on its own
GetTokenCount ==
    /\ classDef = 2
    /\ Invoke
    /\ LET m1 == getTokenCount(TM, now)
       IN Becomes([m |-> m1, call |-> Idle,
                   ret |-> [op |-> "getTokenCount", result |-> Len(m1.tokens)]])

\* the test of lines 61-63 (444-446) fails: loadTokens goes on to its source
ReadsSource == ~(now - lastLoadTime < loadInterval /\ Len(tokens) > 0)

NextFail ==
    \/ LoadTokens
    \/ ForceReload
    \/ LoadTokens2
    \/ GetToken
    \/ RefreshOk
    \/ RefreshFail
    \/ GetToken2
    \/ Refresh2Ok
    \/ Refresh2Fail
    \/ GetTokenCount
    \/ SourceFault
    \/ Tick

SpecFail == InitBoth /\ [][NextFail]_vars

\* --------------------------------------------------------- saveToFile
\* the sources for saveToFile: rows that can share a key, enabled or not,
\* the first f of them unexpired
SaveStores ==
    UNION {
        { [i \in 1..n |-> Row(i, key[i], en[i], i <= f)] :
              key \in [1..n -> 1..2], en \in [1..n -> BOOLEAN], f \in 0..n }
        : n \in 0..MaxTokens }

\* the records of a list of row ids
Records(m, list) == [i \in 1..Len(list) |-> m.objs[list[i]]]

\* saveToFile (lines 195-220, 546-570) called on its own; the return value
\* keeps what the manager held before and what the file holds before and after
SaveToFile ==
    /\ call.pc = "idle"
    /\ UNCHANGED ops
    /\ LET m1 == saveToFile(TM)
       IN Becomes([m |-> m1, call |-> Idle,
                   ret |-> [op |-> "saveToFile", env |-> useEnvAccounts,
                            writable |-> srcOk,
                            cached0 |-> Records(TM, cachedData),
                            eligible0 |-> Records(TM, tokens),
                            store0 |-> store, store1 |-> m1.store]])

InitSave == InitWith({1, 2}, BOOLEAN, SaveStores)

NextSave ==
    \/ SaveToFile
    \/ GetToken
    \/ RefreshOk
    \/ RefreshFail
    \/ DisableToken
    \/ SetCooldown
    \/ GetToken2
    \/ Refresh2Ok
    \/ Refresh2Fail
    \/ SourceFault

SpecSave == InitSave /\ [][NextSave]_vars

\* ---------------------------------------------------- getTokenByIndex
\* getTokenByIndex (token_manager.js 657-681) called on its own
GbiReturned(c, m, id, threw, refreshes) ==
    [op |-> "getTokenByIndex", index |-> c.index, length |-> c.length,
     result |-> id, threw |-> threw, refreshes |-> refreshes,
     usage0 |-> c.usage0, usage |-> m.usageStats]

\* up to the await of refreshToken or to the return.  index 0 is tokens[1];
\* past the test of line 660 an index below 0 gives token = undefined, and
\* line 665 (token._source) throws a TypeError outside the try
getTokenByIndex(m, index, t) ==
    LET m1 == loadTokens2(m, t)
        c == [pc |-> "gbi", op |-> "getTokenByIndex", index |-> index,
              length |-> Len(m1.tokens), cur |-> Null, usage0 |-> m.usageStats]
    IN IF Len(m1.tokens) = 0 \/ index >= Len(m1.tokens)
       THEN [m |-> m1, call |-> Idle, ret |-> GbiReturned(c, m1, Null, FALSE, 0)]
       ELSE IF index < 0
       THEN [m |-> m1, call |-> Idle, ret |-> GbiReturned(c, m1, Null, TRUE, 0)]
       ELSE LET id == m1.tokens[index + 1]
            IN IF isExpired(m1.objs[id], t)
               THEN [m |-> m1, ret |-> NoRet,
                     call |-> [c EXCEPT !.pc = "gbi_alone_refresh", !.cur = id]]
               ELSE LET m2 == recordUsage(m1, KeyOf(m1, id))
                    IN [m |-> m2, call |-> Idle,
                        ret |-> GbiReturned(c, m2, id, FALSE, 0)]

\* the refresh ended: lines 669-680, the token is returned either way
GbiAloneRefreshed(m, c, ok, t) ==
    LET m1 == IF ok THEN recordUsage(Refreshed(m, c.cur, t), KeyOf(m, c.cur)) ELSE m
    IN [m |-> m1, call |-> Idle, ret |-> GbiReturned(c, m1, c.cur, FALSE, 1)]

\* the indices a caller passes
Indices2 == (0 - 1)..MaxTokens

GetTokenByIndex ==
    /\ classDef = 2
    /\ Invoke
    /\ \E index \in Indices2 : Becomes(getTokenByIndex(TM, index, now))

GbiAloneRefresh ==
    /\ call.pc = "gbi_alone_refresh"
    /\ UNCHANGED ops
    /\ \E ok \in BOOLEAN : Becomes(GbiAloneRefreshed(TM, call, ok, now))

NextIndex ==
    \/ LoadTokens2
    \/ GetTokenByIndex
    \/ GbiAloneRefresh
    \/ Tick
    \/ SourceFault

SpecIndex == InitClient /\ [][NextIndex]_vars

\* ------------------------------------------------------- two callers
\* a second caller runs its own call while the first one awaits: both are
\* interleaved at their awaits, on the one manager
PeerBecomes(out) ==
    /\ SetTM(out.m)
    /\ peer' = out.call
    /\ ret' = out.ret
    /\ rr' = <<>>
    /\ UNCHANGED <<classDef, envSet, srcOk, now, call, res, handler, psr,
                   events, sent, hist>>

PeerInvoke ==
    /\ peer.pc = "idle"
    /\ ops < MaxOps
    /\ ops' = ops + 1

PeerGetToken ==
    /\ classDef = 1
    /\ PeerInvoke
    /\ PeerBecomes(GtEnter(TM, NoHre, now))

PeerRefreshOk ==
    /\ peer.pc = "gt_refresh"
    /\ UNCHANGED ops
    /\ PeerBecomes(GtRefreshOk(TM, peer, now))

PeerRefreshFail ==
    /\ peer.pc = "gt_refresh"
    /\ UNCHANGED ops
    /\ \E s \in FailStatuses : PeerBecomes(GtRefreshFail(TM, peer, s, now))

PeerGetTokenByIndex ==
    /\ classDef = 2
    /\ PeerInvoke
    /\ \E index \in Indices2 : PeerBecomes(getTokenByIndex(TM, index, now))

PeerGbiAloneRefresh ==
    /\ peer.pc = "gbi_alone_refresh"
    /\ UNCHANGED ops
    /\ \E ok \in BOOLEAN : PeerBecomes(GbiAloneRefreshed(TM, peer, ok, now))

NextTwo ==
    \/ GetToken
    \/ RefreshOk
    \/ RefreshFail
    \/ GetTokenByIndex
    \/ GbiAloneRefresh
    \/ PeerGetToken
    \/ PeerRefreshOk
    \/ PeerRefreshFail
    \/ PeerGetTokenByIndex
    \/ PeerGbiAloneRefresh

\* getToken of the first TokenManager and getTokenByIndex of the second, each
\* called by two callers at once
SpecTwo == InitBoth /\ [][NextTwo]_vars

\* ---------------------------------------------------------- isExpired
\* isExpired (token_manager.js 156-160) alone.  0 stands for a timestamp or
\* an expires_in that the record lacks (or that is 0: `!token.timestamp`)
MaxOffset == 2
Timestamps == {0, T0 - 1000, T0, T0 + 1000}
ExpiresIns == {0, 1, 300, 301, grantedExpiresIn}
Offsets == (0 - MaxOffset)..MaxOffset

\* isExpired is called on a record at a time around its expiry
IsExpired ==
    /\ call.pc = "idle"
    /\ UNCHANGED ops
    /\ \E ts \in Timestamps, e \in ExpiresIns, d \in Offsets :
          LET t == (IF ts = 0 THEN T0 ELSE ts) + e * 1000 - expirySkew + d
          IN Becomes([m |-> TM, call |-> Idle,
                      ret |-> [op |-> "isExpired", timestamp |-> ts,
                               expires_in |-> e, now |-> t,
                               result |-> isExpired([timestamp |-> ts,
                                                     expires_in |-> e], t)]])

InitExpiry == InitWith({1, 2}, {FALSE}, ServeStores)

NextExpiry == IsExpired

SpecExpiry == InitExpiry /\ [][NextExpiry]_vars

\* ------------------------------------------------- tryRequestWithToken
\* client.js 5-27, alone: the status of the upstream response is the input
MinStatus == 200
MaxStatus == 599
Statuses == MinStatus..MaxStatus

\* response.ok
Ok(status) == status \in 200..299

\* 502 is taken for a retryable status and 503 is not
MutTryRequestWithToken502(status) ==
    IF Ok(status)
    THEN [op |-> "tryRequestWithToken", thrown |-> FALSE, status |-> status,
          isRetryable |-> FALSE]
    ELSE [op |-> "tryRequestWithToken", thrown |-> TRUE, status |-> status,
          isRetryable |-> status = 429 \/ status = 403 \/ status = 500
                          \/ status = 502]

\* what the call returns (thrown = FALSE: the response) or throws (the error
\* with its status and isRetryable): lines 18-26
tryRequestWithToken(status) ==
    IF Ok(status)
    THEN [op |-> "tryRequestWithToken", thrown |-> FALSE, status |-> status,
          isRetryable |-> FALSE]
    ELSE [op |-> "tryRequestWithToken", thrown |-> TRUE, status |-> status,
          isRetryable |-> status = 429 \/ status = 403 \/ status = 500
                          \/ status = 503]

\* the call is made and awaits fetch
TryRequestWithToken ==
    /\ call.pc = "idle"
    /\ UNCHANGED ops
    /\ Becomes([m |-> TM, call |-> [pc |-> "fetch"], ret |-> NoRet])

\* fetch resolves with a response of some status
Fetched ==
    /\ call.pc = "fetch"
    /\ UNCHANGED ops
    /\ \E status \in Statuses :
          Becomes([m |-> TM, call |-> Idle, ret |-> tryRequestWithToken(status)])

InitTry == InitWith({2}, {FALSE}, ServeStores)

NextTry == TryRequestWithToken \/ Fetched

SpecTry == InitTry /\ [][NextTry]_vars

\* ------------------------------------------- what the callers were given
\* the record a completed getToken or getTokenByIndex gave is counted
Given(h, out) ==
    IF /\ out.call.pc = "idle"
       /\ out.ret.op \in {"getToken", "getTokenByIndex"}
       /\ out.ret.result # Null
    THEN [h EXCEPT !.given[KeyOf(out.m, out.ret.result)] = @ + 1]
    ELSE h

\* an outcome becomes the next state, and what it gave is noted
Noted(out) ==
    /\ BecomesTM(out)
    /\ hist' = Given(hist, out)
    /\ UNCHANGED <<res, handler, psr, events, sent, peer>>

GetTokenNoted ==
    /\ classDef = 1
    /\ Invoke
    /\ Noted(GtEnter(TM, NoHre, now))

RefreshOkNoted ==
    /\ call.pc = "gt_refresh"
    /\ UNCHANGED ops
    /\ Noted(GtRefreshOk(TM, call, now))

RefreshFailNoted ==
    /\ call.pc = "gt_refresh"
    /\ UNCHANGED ops
    /\ \E s \in FailStatuses : Noted(GtRefreshFail(TM, call, s, now))

GetToken2Noted ==
    /\ classDef = 2
    /\ Invoke
    /\ Noted(Gt2Enter(TM, now))

Refresh2OkNoted ==
    /\ call.pc = "gt2_refresh"
    /\ UNCHANGED ops
    /\ Noted(Gt2RefreshOk(TM, call, now))

Refresh2FailNoted ==
    /\ call.pc = "gt2_refresh"
    /\ UNCHANGED ops
    /\ \E s \in FailStatuses : Noted(Gt2RefreshFail(TM, call, s, now))

GetTokenByIndexNoted ==
    /\ classDef = 2
    /\ Invoke
    /\ \E index \in 0..MaxTokens : Noted(getTokenByIndex(TM, index, now))

GbiAloneRefreshNoted ==
    /\ call.pc = "gbi_alone_refresh"
    /\ UNCHANGED ops
    /\ \E ok \in BOOLEAN : Noted(GbiAloneRefreshed(TM, call, ok, now))

\* disableToken (lines 222-227) on an eligible record; its key is noted
DisableTokenNoted ==
    /\ classDef = 1
    /\ Invoke
    /\ \E id \in Range(tokens) :
          /\ SetTM(disableToken(TM, id, now))
          /\ hist' = [hist EXCEPT !.disabled = @ \cup {KeyOf(TM, id)}]
    /\ ret' = NoRet
    /\ rr' = <<>>
    /\ UNCHANGED <<classDef, envSet, srcOk, now, call, res, handler, psr,
                   events, sent, peer>>

NextDisable ==
    \/ DisableTokenNoted
    \/ GetTokenNoted
    \/ RefreshOkNoted
    \/ RefreshFailNoted
    \/ Tick

SpecDisable == Init /\ [][NextDisable]_vars

NextUsage ==
    \/ GetTokenNoted
    \/ RefreshOkNoted
    \/ RefreshFailNoted
    \/ GetToken2Noted
    \/ Refresh2OkNoted
    \/ Refresh2FailNoted
    \/ GetTokenByIndexNoted
    \/ GbiAloneRefreshNoted
    \/ Tick

SpecUsage == InitBoth /\ [][NextUsage]_vars

\* ----------------------------------------------------- serving requests
Min(a, b) == IF a < b THEN a ELSE b

\* the lists of at most n parts a line carries
PartSeqs(n) == UNION {[1..k -> PartShapes] : k \in 0..n}

\* the lines that arrive whole, carrying at most n parts (a data line carries
\* parts, the finish signal or both), and the lines cut by the end of the chunk
WholeLines(n) ==
    ({DataLine(ps, f) : ps \in PartSeqs(Min(n, MaxLineParts)), f \in BOOLEAN}
        \ {DataLine(<<>>, FALSE)})
    \cup {GarbledLine, OtherLine}
CutLines(n) == IF n = 0 THEN {} ELSE {CutLine(<<p>>, FALSE) : p \in PartShapes}

\* the chunks of at most l lines and n parts a read can give; only the last
\* line of a chunk can be cut
RECURSIVE Chunks(_, _)
Chunks(n, l) ==
    IF l = 0 THEN {}
    ELSE {<<x>> : x \in WholeLines(n) \cup CutLines(n)}
         \cup UNION {{<<x>> \o c : c \in Chunks(n - Len(x.parts), l - 1)} :
                        x \in WholeLines(n)}

RECURSIVE PartsIn(_, _)
PartsIn(lines, i) ==
    IF i > Len(lines) THEN 0 ELSE Len(lines[i].parts) + PartsIn(lines, i + 1)

RECURSIVE PartsSent(_)
PartsSent(i) == IF i > Len(sent) THEN 0
                ELSE PartsIn(sent[i].lines, 1) + PartsSent(i + 1)

RECURSIVE LinesSent(_)
LinesSent(i) == IF i > Len(sent) THEN 0 ELSE Len(sent[i].lines) + LinesSent(i + 1)

\* the events of one read, as the observation keeps them
Delivered(emitted, attempt) ==
    [i \in 1..Len(emitted) |->
        [ev |-> emitted[i].ev, read |-> emitted[i].read, line |-> emitted[i].line,
         part |-> emitted[i].part, attempt |-> attempt]]

\* a step of a request: the call and the manager move to `out`, the handler
\* goes on from hr if generateAssistantResponse has ended
Served(hr, out, p, evs, snt) ==
    /\ BecomesTM(out)
    /\ handler' = Settle(hr, out).handler
    /\ res' = Settle(hr, out).res
    /\ psr' = p
    /\ events' = evs
    /\ sent' = snt
    /\ peer' = peer
    /\ hist' = hist

\* a request arrives at `route`; valid: it carries messages (and max_tokens)
Request(route) ==
    /\ classDef = 2
    /\ call.pc = "idle"
    /\ ops < MaxRequests
    /\ ops' = ops + 1
    /\ \E stream \in BOOLEAN, valid \in BOOLEAN :
          IF valid
          THEN Served(RouteEnter(route, stream), GarEnter(TM, now), NoPsr, <<>>, <<>>)
          ELSE /\ BecomesTM([m |-> TM, call |-> Idle, ret |-> NoRet])
               /\ handler' = [NoHandler EXCEPT !.route = route, !.stream = stream,
                                               !.settled = TRUE]
               /\ res' = Json([handler |-> NoHandler, res |-> NoRes], 400,
                              [error |-> "messages is required"]).res
               /\ psr' = NoPsr
               /\ events' = <<>>
               /\ sent' = <<>>
               /\ peer' = peer
               /\ hist' = hist

ChatCompletions == Request("chat")

Messages == Request("messages")

\* the upstream answers the request of tryRequestWithToken
UpstreamResponse ==
    /\ call.pc = "request"
    /\ handler.route # "none"
    /\ UNCHANGED ops
    /\ \E s \in UpstreamStatuses :
          Served(HR, GarResponded(TM, call, s, now), NoPsr, events, sent)

\* reader.read() gives a chunk: lines 36-98, the callback called in between
ReadChunk ==
    /\ call.pc = "stream"
    /\ Len(sent) < MaxReads
    /\ UNCHANGED ops
    /\ \E chunk \in Chunks(MaxParts - PartsSent(1),
                           Min(MaxChunkLines, MaxLines - LinesSent(1))) :
          LET st == OnChunk(psr, chunk, Len(sent) + 1)
          IN Served(Callbacks(HR, st.out, 1),
                    [m |-> TM, call |-> call, ret |-> NoRet],
                    [thinkingStarted |-> st.thinkingStarted,
                     toolCalls |-> st.toolCalls],
                    events \o Delivered(st.out, call.attempt),
                    Append(sent, [attempt |-> call.attempt, lines |-> chunk]))

\* reader.read() gives done
ReadDone ==
    /\ call.pc = "stream"
    /\ UNCHANGED ops
    /\ Served(HR, GarReadDone(TM, call, now), psr, events, sent)

\* reader.read() rejects: the connection to the upstream broke
ReadError ==
    /\ call.pc = "stream"
    /\ UNCHANGED ops
    /\ Served(HR, GarReadFailed(TM, call, now), psr, events, sent)

\* the two endpoints, on the second TokenManager with unexpired credentials
InitServe == InitWith({2}, {FALSE}, ServeStores)

NextServe ==
    \/ ChatCompletions
    \/ Messages
    \/ UpstreamResponse
    \/ ReadChunk
    \/ ReadDone
    \/ ReadError

SpecServe == InitServe /\ [][NextServe]_vars

\* ------------------------------------------------------------- claims
\* a getToken call that found every eligible record expired and saw every
\* refresh it attempted fail
FailedRotation ==
    /\ ret.op = "getToken"
    /\ Len(ret.elig0) >= 1
    /\ ret.allExpired
    /\ \A i \in 1..Len(ret.log) : ~ret.log[i].ok

\* the refresh log of the getToken call in progress or just returned
CurLog ==
    IF call.pc = "gt_refresh" THEN call.log
    ELSE IF ret.op \in {"getToken", "handleRequestError"} THEN ret.log
    ELSE <<>>

TokenKeys == {objs[id].refresh_token : id \in Range(tokens)}

\* C1: a getToken call on N eligible records, all expired, all refreshes
\* failing, attempts a refresh on each of the N records exactly once before it
\* returns.
C1_EveryRecordRefreshedOnce ==
    (FailedRotation /\ ret.def = 1) =>
        /\ Len(ret.log) = Len(ret.elig0)
        /\ {ret.log[i].id : i \in 1..Len(ret.log)} = Range(ret.elig0)

C3_RoundRobin ==
    /\ \A j \in 1..Len(rr) :
          LET n == Len(rr[j].pool)
          IN /\ rr[j].id = rr[j].pool[rr[j].before + 1]
             /\ rr[j].after = (rr[j].before + 1) % n
             /\ j > 1 => rr[j].before = rr[j - 1].after
    /\ (rr # <<>> /\ Len(rr) = Len(rr[1].pool)) =>
          /\ {rr[j].id : j \in 1..Len(rr)} = Range(rr[1].pool)
          /\ \A i, j \in 1..Len(rr) : rr[i].id = rr[j].id => i = j

C3_ThreeInARow == Len(rr) = 3 /\ Len(rr[1].pool) = 3

\* C4: whenever tokens is not empty, currentIndex is an index of it.
C4_CursorInBounds ==
    Len(tokens) > 0 => (currentIndex >= 0 /\ currentIndex < Len(tokens))

C4_CursorMovedPoolShrunk ==
    /\ Len(tokens) = 2
    /\ currentIndex = 1
    /\ \E k \in Keys : tokenCooldowns[k] # 0
    /\ ops >= 2

\* C5 as stated: when every eligible record is expired and every refresh
\* fails, getToken returns null.
C5_NullOnExhaustion == FailedRotation => ret.result = Null

\* C5 as amended: the first getToken returns null then; the second getToken
\* returns the first eligible record, whose refresh failed.
C5_NullOrFallback ==
    FailedRotation =>
        /\ ret.def = 1 => ret.result = Null
        /\ ret.def = 2 => (ret.result = ret.pool[1] /\ ret.pool = ret.elig0
                           /\ Len(ret.log) = Len(ret.elig0))

C5_TwoRefreshesFailed ==
    /\ FailedRotation
    /\ ret.def = 1
    /\ Len(ret.log) = 2
    /\ ret.result = Null

Indices(tries) == {tries[i].index : i \in 1..Len(tries)}

GarShape ==
    ret.op = "generateAssistantResponse" =>
        /\ Len(ret.tries) <= ret.total
        /\ \A i \in 1..Len(ret.tries) :
              /\ ret.tries[i].index \in 0..(ret.total - 1)
              /\ i > 1 => ret.tries[i].index > ret.tries[i - 1].index
              /\ i < Len(ret.tries) => ret.tries[i].status # 200
        /\ ret.outcome = "ok" => ret.tries[Len(ret.tries)].status = 200
        /\ ret.outcome = "error" =>
              /\ ret.total > 0
              /\ \A i \in 1..Len(ret.tries) : ret.tries[i].status # 200
              /\ ret.error = IF ret.tries = <<>> THEN NoError
                             ELSE ret.tries[Len(ret.tries)].status

C7_FailuresBecomeCooldowns ==
    (ret.op = "generateAssistantResponse" /\ ret.outcome = "ok") =>
        \A i \in 1..Len(ret.tries) :
            LET e == ret.tries[i]
                d == IF e.status = 429 THEN 600000 ELSE 60000
            IN e.status \in {429, 500} =>
                  /\ tokenCooldowns[e.key] >= ret.since + d
                  /\ tokenCooldowns[e.key] <= now + d

CooldownSetRight(e) ==
    e.until = e.at + (IF e.status = 403 THEN 300000
                      ELSE IF e.status = 429 THEN 600000 ELSE 60000)

\* C8 as stated: a refresh failing in getToken with status s puts the record
\* in cooldown until now + 300 s (403), now + 600 s (429) or now + 60 s
\* (other), and the record is not eligible for the rest of the call.
C8_CooldownAndGone ==
    classDef = 1 =>
        \A i \in 1..Len(CurLog) :
            LET e == CurLog[i]
            IN ~e.ok => /\ CooldownSetRight(e)
                        /\ objs[e.id].refresh_token \notin TokenKeys

\* C8 as amended: the cooldown is as stated, and the record is not eligible
\* for the rest of the call as long as the clock is short of that expiry.
C8_CooldownAndGoneUntilExpiry ==
    classDef = 1 =>
        \A i \in 1..Len(CurLog) :
            LET e == CurLog[i]
            IN ~e.ok => /\ CooldownSetRight(e)
                        /\ now < e.until =>
                               objs[e.id].refresh_token \notin TokenKeys

C8_TwoClassesInOneCall ==
    /\ ret.op = "getToken"
    /\ Len(ret.log) = 2
    /\ ret.log[1].status = 429
    /\ ret.log[2].status = 500
    /\ ret.result = Null

\* C9: handleRequestError puts the record that was used in cooldown for 600 s
\* on 429, 300 s on 403 and 60 s on any other status.
C9_SameClassification ==
    (ret.op = "handleRequestError" /\ ret.hre.usedKey # NoKey) =>
        tokenCooldowns[ret.hre.usedKey] =
            ret.hre.since + (IF ret.hre.status = 429 THEN 600000
                             ELSE IF ret.hre.status = 403 THEN 300000
                             ELSE 60000)

\* C10: a recomputation of the eligible set at time t leaves out every record
\* whose cooldown entry T has t < T, and takes in every enabled record whose
\* entry has t >= T, the entry still being in the map when it starts.
C10_CooldownSelfExpires ==
    recomp.valid =>
        \A id \in 1..Len(objs) :
            LET T == recomp.cd[objs[id].refresh_token]
            IN T # 0 =>
                  /\ recomp.at < T => id \notin Range(tokens)
                  /\ (recomp.at >= T /\ id \in recomp.enabled) =>
                        id \in Range(tokens)

C10_BackAtExpiry ==
    /\ recomp.valid
    /\ \E id \in Range(tokens) : recomp.cd[objs[id].refresh_token] = recomp.at

InCall == call.pc \in {"gbi_refresh", "request", "stream"}

\* C11: generateAssistantResponse on an empty eligible pool throws its "no
\* token" error at once: the call is never in progress, no request was sent,
\* no credential was selected or counted as used, no event was delivered.
C11_EmptyPoolFailsAtOnce ==
    /\ InCall => call.total > 0
    /\ (ret.op = "generateAssistantResponse" /\ ret.total = 0) =>
          /\ ret.outcome = "no token"
          /\ ret.tries = <<>>
          /\ ret.skipped = {}
          /\ events = <<>>
          /\ sent = <<>>
          /\ \A k \in Keys : usageStats[k] = 0
          /\ handler.settled

C11_EmptyPoolStreamingChat ==
    /\ ret.op = "generateAssistantResponse"
    /\ ret.total = 0
    /\ handler.route = "chat"
    /\ handler.stream
    /\ res.ended

\* the events the callback got from the processStreamResponse of attempt a
EventsOf(a) ==
    LET s == SelectSeq(events, LAMBDA e : e.attempt = a)
    IN [i \in 1..Len(s) |-> s[i].ev]

\* the parts of the data lines the upstream sent in attempt a, in order
RECURSIVE LineParts(_, _)
LineParts(lines, i) ==
    IF i > Len(lines) THEN <<>> ELSE lines[i].parts \o LineParts(lines, i + 1)

\* the lines of read i that arrived in full: a line the chunk ends inside of
\* is one of them when a later read of the same stream brought its rest
ArrivedLines(i) ==
    SelectSeq(sent[i].lines,
              LAMBDA l : l.cut => (i < Len(sent) /\ sent[i + 1].attempt = sent[i].attempt))

RECURSIVE UpstreamParts(_, _)
UpstreamParts(a, i) ==
    IF i > Len(sent) THEN <<>>
    ELSE (IF sent[i].attempt = a THEN LineParts(ArrivedLines(i), 1) ELSE <<>>)
         \o UpstreamParts(a, i + 1)

\* the stream of the last attempt was read to its end
StreamEnded == ret.op = "generateAssistantResponse" /\ ret.outcome = "ok"
LastAttempt == ret.tries[Len(ret.tries)].index

\* k >= 1 thoughts followed by one text part of non-empty content
ThoughtsThenText(ps) ==
    /\ Len(ps) >= 2
    /\ \A i \in 1..(Len(ps) - 1) : ps[i].thought
    /\ ~ps[Len(ps)].thought
    /\ ps[Len(ps)].hasText
    /\ TextContent(ps[Len(ps)]) # ""

BracketedEvents(ps) ==
    <<Thinking(ThinkOpen)>>
    \o [i \in 1..(Len(ps) - 1) |-> Thinking(ps[i].text)]
    \o <<Thinking(ThinkClose), Text(TextContent(ps[Len(ps)]))>>

\* C12: when the upstream sent k >= 1 thought parts and then one text part of
\* non-empty content, in whatever data lines, the callback got exactly
\* ThinkingStart, a ThinkingDelta for each thought, ThinkingEnd, TextDelta.
C12_ThoughtsThenTextBracketed ==
    StreamEnded =>
        LET ps == UpstreamParts(LastAttempt, 1)
        IN ThoughtsThenText(ps) => EventsOf(LastAttempt) = BracketedEvents(ps)

\* the same, for the streams none of whose data lines a chunk ends inside of
NoLineCut == \A i \in 1..Len(sent) : \A j \in 1..Len(sent[i].lines) :
                 ~sent[i].lines[j].cut

C12_WholeLinesBracketed ==
    (StreamEnded /\ NoLineCut) =>
        LET ps == UpstreamParts(LastAttempt, 1)
        IN ThoughtsThenText(ps) => EventsOf(LastAttempt) = BracketedEvents(ps)

C12_WholeLinesTwoLines ==
    /\ StreamEnded
    /\ NoLineCut
    /\ ThoughtsThenText(UpstreamParts(LastAttempt, 1))
    /\ \E i \in 1..Len(sent) : sent[i].attempt = LastAttempt /\ Len(sent[i].lines) = 2
                                /\ Len(sent[i].lines[1].parts) = 1
                                /\ Len(sent[i].lines[2].parts) = 1

\* the indices generateAssistantResponse can try
Attempts == 0..(ServeTokens - 1)

\* evs from position i on, a thinking block being open or not before it
RECURSIVE WellBracketed(_, _, _)
WellBracketed(evs, i, open) ==
    IF i > Len(evs) THEN TRUE
    ELSE LET e == evs[i]
         IN IF e.type = "thinking"
            THEN IF e.content = ThinkOpen
                 THEN ~open /\ WellBracketed(evs, i + 1, TRUE)
                 ELSE IF e.content = ThinkClose
                 THEN open /\ WellBracketed(evs, i + 1, FALSE)
                 ELSE open /\ WellBracketed(evs, i + 1, open)
            ELSE IF e.type = "text"
            THEN ~open /\ WellBracketed(evs, i + 1, open)
            ELSE WellBracketed(evs, i + 1, open)

\* C13: in every prefix of the events one processStreamResponse delivers, a
\* ThinkingDelta or ThinkingEnd comes only while a ThinkingStart is open, a
\* ThinkingStart never while one is open, a TextDelta never while one is open.
C13_ThinkingWellBracketed ==
    \A a \in Attempts : WellBracketed(EventsOf(a), 1, FALSE)

C13_TextClosedThinking ==
    \E a \in Attempts :
        LET evs == EventsOf(a)
        IN /\ Len(evs) = 4
           /\ evs[1] = Thinking(ThinkOpen)
           /\ evs[3] = Thinking(ThinkClose)
           /\ evs[4].type = "text"

\* the entries processStreamResponse pushes for a list of parts
RECURSIVE CallsOf(_, _)
CallsOf(parts, i) ==
    IF i > Len(parts) THEN <<>>
    ELSE (IF ~parts[i].thought /\ ~parts[i].hasText
             /\ parts[i].functionCall # NoFunctionCall
          THEN <<ToolCall(parts[i].functionCall)>> ELSE <<>>)
         \o CallsOf(parts, i + 1)

\* the entries pushed in attempt a by the lines up to line l of read r
RECURSIVE CallsUpTo(_, _, _, _, _)
CallsUpTo(a, r, l, i, j) ==
    IF i > Len(sent) \/ i > r \/ (i = r /\ j > l) THEN <<>>
    ELSE IF j > Len(sent[i].lines) THEN CallsUpTo(a, r, l, i + 1, 1)
    ELSE (IF sent[i].attempt = a /\ sent[i].lines[j].prefix /\ sent[i].lines[j].json
          THEN CallsOf(sent[i].lines[j].parts, 1) ELSE <<>>)
         \o CallsUpTo(a, r, l, i, j + 1)

\* the tool_calls events of attempt a, with their places
ToolCallEvents(a) ==
    SelectSeq(events, LAMBDA e : e.attempt = a /\ e.ev.type = "tool_calls")

\* the invocations of the first k of them
RECURSIVE CallsDelivered(_, _)
CallsDelivered(tes, k) ==
    IF k = 0 THEN <<>> ELSE CallsDelivered(tes, k - 1) \o tes[k].ev.tool_calls

\* C14 (amended): a function call is not delivered when its part is processed;
\* a tool_calls event is delivered only by the finishReason of a data line
\* while the buffer is not empty, and it is a single event that carries every
\* invocation buffered since the previous one, in buffering order; the buffer is
\* then empty, so that no invocation is delivered twice.
C14_ToolCallsFlushedAtFinish ==
    \A a \in Attempts :
        LET tes == ToolCallEvents(a)
        IN /\ \A k \in 1..Len(tes) :
                  LET e == tes[k]
                      l == sent[e.read].lines[e.line]
                  IN /\ l.json /\ l.finishReason
                     /\ e.part = Len(l.parts) + 1
                     /\ e.ev.tool_calls # <<>>
                     /\ CallsDelivered(tes, k) = CallsUpTo(a, e.read, e.line, 1, 1)
           /\ (call.pc = "stream" /\ call.attempt = a) =>
                  CallsDelivered(tes, Len(tes)) \o psr.toolCalls
                      = CallsUpTo(a, Len(sent), MaxLines, 1, 1)

\* C14 as stated: moreover one event per buffered invocation
C14_OneEventPerInvocation ==
    /\ C14_ToolCallsFlushedAtFinish
    /\ \A i \in 1..Len(events) :
           events[i].ev.type = "tool_calls" => Len(events[i].ev.tool_calls) = 1

C14_TwoInvocationsOneEvent ==
    \E i \in 1..Len(events) :
        /\ events[i].ev.type = "tool_calls"
        /\ Len(events[i].ev.tool_calls) = 2
        /\ events[i].ev.tool_calls[1].id = "t1"
        /\ events[i].ev.tool_calls[2].id = "t2"
        /\ psr.toolCalls = <<>>

\* the events of attempt a with the places they were delivered from
PlacedEventsOf(a) == SelectSeq(events, LAMBDA e : e.attempt = a)

\* a thinking block is open after the first n events of es
RECURSIVE OpenAfter(_, _)
OpenAfter(es, n) ==
    IF n = 0 THEN FALSE
    ELSE IF es[n].ev = Thinking(ThinkOpen) THEN TRUE
    ELSE IF es[n].ev = Thinking(ThinkClose) THEN FALSE
    ELSE OpenAfter(es, n - 1)

SamePlace(e, f) == e.read = f.read /\ e.line = f.line /\ e.part = f.part

\* the finish signal that delivered es[i] delivered a ThinkingEnd before it
ClosedAtFinish(es, i) ==
    i > 1 /\ SamePlace(es[i - 1], es[i]) /\ es[i - 1].ev = Thinking(ThinkClose)

\* C15: the finish signal that delivers the buffered tool calls delivers a
\* ThinkingEnd just before them exactly when a thinking block was open, and
\* no thinking block is open afterwards.
C15_FinishClosesThinking ==
    \A a \in Attempts :
        LET es == PlacedEventsOf(a)
        IN \A i \in 1..Len(es) :
              es[i].ev.type = "tool_calls" =>
                  /\ ClosedAtFinish(es, i)
                        <=> OpenAfter(es, IF ClosedAtFinish(es, i) THEN i - 2 ELSE i - 1)
                  /\ (i < Len(es) /\ es[i + 1].ev.type = "thinking") =>
                        es[i + 1].ev.content = ThinkOpen
                  /\ (i = Len(es) /\ call.pc = "stream" /\ call.attempt = a) =>
                        ~psr.thinkingStarted

C15_FinishWhileThinking ==
    \E a \in Attempts :
        LET es == PlacedEventsOf(a)
        IN /\ Len(es) = 4
           /\ es[1].ev = Thinking(ThinkOpen)
           /\ es[2].ev = Thinking("a")
           /\ es[3].ev = Thinking(ThinkClose)
           /\ es[4].ev.type = "tool_calls"
           /\ SamePlace(es[3], es[4])
           /\ ~psr.thinkingStarted

\* the places [read, line, part] of the text parts of empty content that
\* processStreamResponse has processed
EmptyTextPlaces ==
    {o \in [read : 1..Len(sent), line : 1..MaxChunkLines, part : 1..MaxLineParts] :
        /\ o.line <= Len(sent[o.read].lines)
        /\ sent[o.read].lines[o.line].json
        /\ o.part <= Len(sent[o.read].lines[o.line].parts)
        /\ LET q == sent[o.read].lines[o.line].parts[o.part]
           IN ~q.thought /\ q.hasText /\ TextContent(q) = ""}

EventsAt(o) == SelectSeq(events, LAMBDA e : SamePlace(e, o))

\* the events of the same stream delivered from places before o
EventsBefore(o) ==
    SelectSeq(events,
              LAMBDA e : /\ e.attempt = sent[o.read].attempt
                         /\ \/ e.read < o.read
                            \/ e.read = o.read /\ e.line < o.line
                            \/ e.read = o.read /\ e.line = o.line /\ e.part < o.part)

\* C16 (amended): a text part of empty content delivers no TextDelta; it
\* delivers the ThinkingEnd of the open thinking block when there is one, and
\* nothing otherwise.
C16_EmptyTextOnlyCloses ==
    \A o \in EmptyTextPlaces :
        LET before == EventsBefore(o)
        IN EventsAt(o) = IF OpenAfter(before, Len(before))
                         THEN <<[ev |-> Thinking(ThinkClose), read |-> o.read,
                                 line |-> o.line, part |-> o.part,
                                 attempt |-> sent[o.read].attempt]>>
                         ELSE <<>>

\* C16 as stated: nothing is delivered, whatever the state
C16_EmptyTextDeliversNothing ==
    \A o \in EmptyTextPlaces : EventsAt(o) = <<>>

C16_EmptyTextWhileThinking ==
    \E o \in EmptyTextPlaces :
        /\ Len(EventsAt(o)) = 1
        /\ EventsAt(o)[1].ev = Thinking(ThinkClose)
        /\ Len(EventsBefore(o)) = 2
        /\ EventsBefore(o)[1].ev = Thinking(ThinkOpen)

\* place o is not after place q in the order of arrival
NotAfter(o, q) ==
    \/ o.read < q.read
    \/ o.read = q.read /\ o.line < q.line
    \/ o.read = q.read /\ o.line = q.line /\ o.part <= q.part

\* the event was delivered while a part was processed (not by a finish signal)
FromPart(e) == e.part <= Len(sent[e.read].lines[e.line].parts)
PartAt(e) == sent[e.read].lines[e.line].parts[e.part]

\* the event is what the part at its place delivers, and nothing of any other
OfItsPart(e) ==
    IF e.ev.type = "tool_calls" THEN ~FromPart(e)
    ELSE IF ~FromPart(e) THEN e.ev = Thinking(ThinkClose)
    ELSE IF e.ev.type = "text"
    THEN ~PartAt(e).thought /\ PartAt(e).hasText /\ e.ev.content = TextContent(PartAt(e))
    ELSE IF e.ev.content = ThinkOpen THEN PartAt(e).thought
    ELSE IF e.ev.content = ThinkClose THEN ~PartAt(e).thought /\ PartAt(e).hasText
    ELSE PartAt(e).thought /\ e.ev.content = PartAt(e).text

\* C17 (amended): the events are delivered in the order of arrival of the
\* parts and finish signals they were delivered from; a thinking or text event
\* carries the content of the one part being processed, and a part delivers
\* at most one content event; a tool_calls event is delivered by a finish
\* signal, not by the function-call parts it carries.
C17_DeliveredInArrivalOrder ==
    /\ \A i \in 1..Len(events) :
           /\ events[i].read <= Len(sent)
           /\ events[i].attempt = sent[events[i].read].attempt
           /\ OfItsPart(events[i])
    /\ \A i \in 1..(Len(events) - 1) :
           /\ NotAfter(events[i], events[i + 1])
           /\ (SamePlace(events[i], events[i + 1]) /\ FromPart(events[i])) =>
                  /\ events[i].ev.type = "thinking"
                  /\ events[i].ev.content \in {ThinkOpen, ThinkClose}
                  /\ events[i + 1].ev.content \notin {ThinkOpen, ThinkClose}

\* all the places of the parts received so far, in the order of arrival
RECURSIVE PlacesFrom(_, _, _)
PlacesFrom(i, j, k) ==
    IF i > Len(sent) THEN <<>>
    ELSE IF j > Len(sent[i].lines) THEN PlacesFrom(i + 1, 1, 1)
    ELSE IF k > Len(sent[i].lines[j].parts) THEN PlacesFrom(i, j + 1, 1)
    ELSE <<[read |-> i, line |-> j, part |-> k]>> \o PlacesFrom(i, j, k + 1)

\* the places of the function-call parts processed in attempt a
CallPlaces(a) ==
    SelectSeq(PlacesFrom(1, 1, 1),
              LAMBDA o : /\ sent[o.read].attempt = a
                         /\ sent[o.read].lines[o.line].json
                         /\ CallsOf(<<PartAt(o)>>, 1) # <<>>)

\* C17 as stated: moreover no event of a part that arrived after a function
\* call is delivered before the event that carries that function call
C17_NoEventOvertaken ==
    /\ C17_DeliveredInArrivalOrder
    /\ \A a \in Attempts :
           LET es == PlacedEventsOf(a)
           IN \A i \in 1..Len(es) :
                 es[i].ev.type = "tool_calls" =>
                     LET earlier == SelectSeq(SubSeq(es, 1, i - 1),
                                              LAMBDA e : e.ev.type = "tool_calls")
                         first == CallPlaces(a)[Len(CallsDelivered(earlier, Len(earlier))) + 1]
                     IN \A h \in 1..(i - 1) :
                           FromPart(es[h]) => NotAfter(es[h], first)

C17_TextBeforeEarlierCall ==
    /\ Len(events) = 2
    /\ events[1].ev.type = "text"
    /\ events[1].part = 2
    /\ events[2].ev.type = "tool_calls"
    /\ SamePlace(events[1], [read |-> 1, line |-> 1, part |-> 2])
    /\ sent[1].lines[1].parts[1].functionCall # NoFunctionCall

\* a data line whose payload JSON.parse rejects
NotJson(l) == l.prefix /\ ~l.json

\* the chunk without its data lines that do not parse
WithoutNotJson(lines) == SelectSeq(lines, LAMBDA l : ~NotJson(l))

\* processStreamResponse run again on the chunks of attempt a from read i on,
\* the data lines that do not parse taken out
RECURSIVE Replay(_, _, _, _)
Replay(p, evs, a, i) ==
    IF i > Len(sent) THEN [psr |-> p, evs |-> evs]
    ELSE IF sent[i].attempt # a THEN Replay(p, evs, a, i + 1)
    ELSE LET st == OnChunk(p, WithoutNotJson(sent[i].lines), i)
         IN Replay([thinkingStarted |-> st.thinkingStarted,
                    toolCalls |-> st.toolCalls],
                   evs \o [k \in 1..Len(st.out) |-> st.out[k].ev], a, i + 1)

\* C18: a data line whose payload is not JSON delivers no event and leaves
\* the thinking flag and the tool-call buffer as they were: the events and the
\* state of a stream are those of the same stream without such lines.
C18_NotJsonLineSkipped ==
    /\ \A i \in 1..Len(events) :
           ~NotJson(sent[events[i].read].lines[events[i].line])
    /\ \A a \in Attempts :
           /\ Replay(NoPsr, <<>>, a, 1).evs = EventsOf(a)
           /\ (call.pc = "stream" /\ call.attempt = a) =>
                  Replay(NoPsr, <<>>, a, 1).psr = psr

\* a stream read to its end with no error: a thought, a line that does not
\* parse, then a text that closes the thinking block and is delivered
C18_StreamGoesOnAfterNotJson ==
    /\ StreamEnded
    /\ Len(sent) = 2
    /\ Len(sent[1].lines) = 2
    /\ sent[1].lines[2] = GarbledLine
    /\ EventsOf(LastAttempt) = <<Thinking(ThinkOpen), Thinking("a"),
                                 Thinking(ThinkClose), Text("c")>>

\* a streaming handler whose generateAssistantResponse threw
StreamingFailed ==
    /\ handler.stream
    /\ handler.settled
    /\ ret.op = "generateAssistantResponse"
    /\ ret.outcome # "ok"

\* the response ends with the error as one content delta and the terminator
ErrorFramed ==
    /\ res.ended
    /\ Len(res.out) >= 2
    /\ IF handler.route = "chat"
       THEN /\ res.out[Len(res.out)] = DoneFrame
            /\ \E i \in 1..(Len(res.out) - 1) :
                   /\ res.out[i].kind = "chunk"
                   /\ res.out[i].delta = ContentDelta("error: " \o ErrorMessage(ret))
       ELSE /\ res.out[Len(res.out)].kind = "sse"
            /\ res.out[Len(res.out)].type = "message_stop"
            /\ \E i \in 1..(Len(res.out) - 1) :
                   /\ res.out[i].kind = "sse"
                   /\ res.out[i].type = "content_block_delta"
                   /\ res.out[i].text = ErrorMessage(ret)

\* C19: when generateAssistantResponse fails in a streaming request, on either
\* endpoint and whether or not output was written, the response carries the
\* error as a content delta followed by the terminator, and is ended.
C19_StreamingFailureFramed == StreamingFailed => ErrorFramed

\* the same for the chat endpoint when nothing was written before the failure
C19_ChatFailureBeforeOutputFramed ==
    (StreamingFailed /\ handler.route = "chat" /\ events = <<>>) => ErrorFramed

\* a streaming response that failed and was left open
C19_LeftOpen == StreamingFailed /\ ~res.ended /\ handler.route = "chat"

\* a streaming chat request whose generateAssistantResponse resolved
ChatStreamSucceeded ==
    /\ handler.route = "chat"
    /\ handler.stream
    /\ handler.settled
    /\ ret.op = "generateAssistantResponse"
    /\ ret.outcome = "ok"

ToolCallDelivered == \E i \in 1..Len(events) : events[i].ev.type = "tool_calls"

\* C20: after a successful stream the streaming chat response ends with one
\* chunk of empty delta whose finish_reason is "tool_calls" if a tool_calls
\* event was delivered during the request and "stop" if none was, followed by
\* [DONE] as the last frame; the chunks before it, one per event, have
\* finish_reason null.
C20_TerminalChunkThenDone ==
    ChatStreamSucceeded =>
        LET n == Len(res.out)
        IN /\ res.ended
           /\ n = Len(events) + 2
           /\ res.out[n] = DoneFrame
           /\ res.out[n - 1] = ChunkFrame(NoDelta, IF ToolCallDelivered
                                                   THEN "tool_calls" ELSE "stop")
           /\ \A i \in 1..(n - 2) :
                  /\ res.out[i].kind = "chunk"
                  /\ res.out[i].finish_reason = NoFinish
                  /\ res.out[i].delta # NoDelta

C20_EndedWithToolCalls ==
    /\ ChatStreamSucceeded
    /\ ToolCallDelivered
    /\ Len(res.out) = 3
    /\ res.out[1].delta.has = "tool_calls"
    /\ res.out[2].finish_reason = "tool_calls"

\* a non-streaming chat request whose generateAssistantResponse resolved
ChatDocumentReturned ==
    /\ handler.route = "chat"
    /\ ~handler.stream
    /\ handler.settled
    /\ ret.op = "generateAssistantResponse"
    /\ ret.outcome = "ok"

\* the contents of the TextDelta events from position i on, joined
RECURSIVE TextDelivered(_)
TextDelivered(i) ==
    IF i > Len(events) THEN ""
    ELSE (IF events[i].ev.type = "text" THEN events[i].ev.content ELSE "")
         \o TextDelivered(i + 1)

\* the invocations of the tool_calls events from position i on
RECURSIVE AllCallsDelivered(_)
AllCallsDelivered(i) ==
    IF i > Len(events) THEN <<>>
    ELSE (IF events[i].ev.type = "tool_calls" THEN events[i].ev.tool_calls ELSE <<>>)
         \o AllCallsDelivered(i + 1)

\* C21: the document of a non-streaming chat request holds the TextDelta
\* contents of the request joined in order, every tool call delivered during
\* the request, and finish_reason "tool_calls" iff a tool call was delivered.
C21_DocumentHoldsAllDelivered ==
    ChatDocumentReturned =>
        LET doc == res.out[Len(res.out)]
        IN /\ Len(res.out) = 1
           /\ doc.kind = "json"
           /\ doc.status = 200
           /\ doc.body.content = TextDelivered(1)
           /\ doc.body.tool_calls = AllCallsDelivered(1)
           /\ doc.body.finish_reason = IF ToolCallDelivered THEN "tool_calls" ELSE "stop"

\* the same without the thinking events and with one tool_calls event at most
C21_DocumentOfPlainStream ==
    (/\ ChatDocumentReturned
     /\ \A i \in 1..Len(events) : events[i].ev.type # "thinking"
     /\ Len(SelectSeq(events, LAMBDA e : e.ev.type = "tool_calls")) <= 1) =>
        LET doc == res.out[Len(res.out)]
        IN /\ doc.body.content = TextDelivered(1)
           /\ doc.body.tool_calls = AllCallsDelivered(1)
           /\ doc.body.finish_reason = IF ToolCallDelivered THEN "tool_calls" ELSE "stop"

\* a document that lost the tool call of the first of two tool_calls events
C21_ToolCallLost ==
    /\ ChatDocumentReturned
    /\ \A i \in 1..Len(events) : events[i].ev.type = "tool_calls"
    /\ Len(events) = 2
    /\ Len(AllCallsDelivered(1)) = 2
    /\ Len(res.out[1].body.tool_calls) = 1

\* the frames of a streaming messages response
IsSse(f, type) == f.kind = "sse" /\ f.type = type
MessagesStreaming == handler.route = "messages" /\ handler.stream
BlockStarts == SelectSeq(res.out, LAMBDA f : IsSse(f, "content_block_start"))

\* C22: in a streaming messages response the k-th content_block_start has
\* index k - 1 (from 0, increasing, no gap), and every content_block_delta
\* and content_block_stop has the index of an earlier content_block_start.
C22_BlockIndexIncreasing ==
    MessagesStreaming =>
        /\ \A k \in 1..Len(BlockStarts) : BlockStarts[k].index = k - 1
        /\ \A i \in 1..Len(res.out) :
               (IsSse(res.out[i], "content_block_delta")
                    \/ IsSse(res.out[i], "content_block_stop")) =>
                   \E j \in 1..(i - 1) :
                       /\ IsSse(res.out[j], "content_block_start")
                       /\ res.out[j].index = res.out[i].index

C22_ThinkingThenTextBlock ==
    /\ MessagesStreaming
    /\ res.ended
    /\ Len(BlockStarts) = 2
    /\ BlockStarts[1].block = "thinking"
    /\ BlockStarts[2].block = "text"
    /\ \E i \in 1..Len(res.out) :
           IsSse(res.out[i], "content_block_delta") /\ res.out[i].index = 1

\* the characters of the deltas written from frame i on, and the sum of
\* their lengths divided by 4 and rounded up one by one
RECURSIVE DeltaChars(_)
DeltaChars(i) ==
    IF i > Len(res.out) THEN 0
    ELSE (IF IsSse(res.out[i], "content_block_delta") THEN Len(res.out[i].text) ELSE 0)
         + DeltaChars(i + 1)

RECURSIVE DeltaCeilings(_)
DeltaCeilings(i) ==
    IF i > Len(res.out) THEN 0
    ELSE (IF IsSse(res.out[i], "content_block_delta")
          THEN CeilQuarter(res.out[i].text) ELSE 0)
         + DeltaCeilings(i + 1)

\* a streaming messages response that was completed
MessagesStreamSucceeded ==
    /\ MessagesStreaming
    /\ handler.settled
    /\ ret.op = "generateAssistantResponse"
    /\ ret.outcome = "ok"

MessageDelta == res.out[Len(res.out) - 1]

\* C23: the output_tokens of the trailing message_delta is the number of
\* characters of all the deltas written, divided by 4 and rounded up.
C23_OutputTokensCeilOfTotal ==
    MessagesStreamSucceeded =>
        /\ IsSse(MessageDelta, "message_delta")
        /\ MessageDelta.output_tokens = (DeltaChars(1) + 3) \div 4

\* what the handler computes: the sum of the rounded quarters of the deltas
C23_OutputTokensSumOfCeilings ==
    MessagesStreamSucceeded =>
        /\ IsSse(MessageDelta, "message_delta")
        /\ MessageDelta.output_tokens = DeltaCeilings(1)

C23_TwoDeltasTwoTokens ==
    /\ MessagesStreamSucceeded
    /\ DeltaChars(1) = 2
    /\ MessageDelta.output_tokens = 2

\* C24: the error tryRequestWithToken throws for a response that is not ok
\* has isRetryable true exactly for the statuses 429, 403, 500 and 503.
C24_RetryableStatuses ==
    (ret.op = "tryRequestWithToken" /\ ~Ok(ret.status)) =>
        /\ ret.thrown
        /\ ret.isRetryable <=> ret.status \in {429, 403, 500, 503}

C24_Retryable503 ==
    /\ ret.op = "tryRequestWithToken"
    /\ ret.thrown
    /\ ret.status = 503
    /\ ret.isRetryable

\* getTokenByIndex returned or threw for an index outside 0..length-1
IndexOutOfRange ==
    /\ ret.op = "getTokenByIndex"
    /\ (ret.index < 0 \/ ret.index >= ret.length)

\* C25: for an index outside 0..length-1 getTokenByIndex returns null, throws
\* nothing, refreshes nothing and records no usage.
C25_OutOfRangeIsNull ==
    IndexOutOfRange =>
        /\ ~ret.threw
        /\ ret.result = Null
        /\ ret.refreshes = 0
        /\ ret.usage = ret.usage0

\* the same for the indices at or past the end of the list, and for any index
\* when the list is empty
C25_PastEndIsNull ==
    (IndexOutOfRange /\ (ret.index >= ret.length \/ ret.length = 0)) =>
        /\ ~ret.threw
        /\ ret.result = Null
        /\ ret.refreshes = 0
        /\ ret.usage = ret.usage0

C25_NegativeIndexThrew ==
    /\ ret.op = "getTokenByIndex"
    /\ ret.index = 0 - 1
    /\ ret.length = 2
    /\ ret.threw

\* no two records of the list have the same refresh_token
DistinctKeys(list) ==
    \A i, j \in 1..Len(list) :
        i # j => objs[list[i]].refresh_token # objs[list[j]].refresh_token

\* C26: after any loadTokens, whatever the sources hold, neither cachedData
\* nor tokens has two records with the same refresh_token.
C26_OneRecordPerKey == DistinctKeys(cachedData) /\ DistinctKeys(tokens)

\* two eligible records of one key, loaded from a source that reads
C26_TwoRecordsOneKey ==
    /\ srcOk
    /\ Len(tokens) = 2
    /\ objs[tokens[1]].refresh_token = objs[tokens[2]].refresh_token

\* the caller awaits the token exchange of refreshToken
Refreshing(c) == c.pc \in {"gt_refresh", "gbi_alone_refresh"}

\* C27: at no time are two refreshToken exchanges for the same record
\* outstanding, whatever calls are in flight.
C27_RefreshesSerialized ==
    ~(/\ Refreshing(call)
      /\ Refreshing(peer)
      /\ objs[call.cur].refresh_token = objs[peer.cur].refresh_token)

\* two exchanges outstanding for the record at index 0
C27_TwoExchangesOutstanding ==
    /\ Refreshing(call)
    /\ Refreshing(peer)
    /\ call.cur = peer.cur
    /\ call.cur = tokens[1]

\* C28: isExpired is true exactly when the record lacks timestamp or
\* expires_in or now >= timestamp + expires_in * 1000 - 300000: true at that
\* instant, false one millisecond earlier.
C28_ExpiredFromSkewedExpiry ==
    ret.op = "isExpired" =>
        LET lacking == ret.timestamp = 0 \/ ret.expires_in = 0
            boundary == ret.timestamp + ret.expires_in * 1000 - 300000
        IN /\ lacking => ret.result
           /\ ~lacking => (ret.result <=> ret.now >= boundary)
           /\ (~lacking /\ ret.now = boundary) => ret.result
           /\ (~lacking /\ ret.now = boundary - 1) => ~ret.result

C28_ExpiredAtBoundary ==
    /\ ret.op = "isExpired"
    /\ ret.timestamp = T0
    /\ ret.expires_in = 3599
    /\ ret.now = T0 + 3599 * 1000 - 300000
    /\ ret.result

\* what a save wrote, against what the manager held when it was called
SavedAsClaimed ==
    ret.op = "saveToFile" =>
        IF ret.env \/ ~ret.writable THEN ret.store1 = ret.store0
        ELSE /\ Len(ret.store1) = Len(ret.cached0)
             /\ \A i \in 1..Len(ret.cached0) :
                    LET k == ret.cached0[i].refresh_token
                        known == {j \in 1..Len(ret.eligible0) :
                                      ret.eligible0[j].refresh_token = k}
                    IN /\ ret.store1[i].refresh_token = k
                       /\ IF known = {} THEN ret.store1[i] = ret.cached0[i]
                          ELSE \E j \in known : ret.store1[i] = ret.eligible0[j]

\* C29: in file mode saveToFile writes as many rows as the record set holds,
\* in the same order of keys; a row whose refresh_token no eligible record
\* has is written as it was, any other row is written as an eligible
\* in-memory record of that refresh_token.  From environment variables, or
\* when the file cannot be written, the file is left as it was.
C29_SaveKeepsUnknownRows == SavedAsClaimed

\* the same holds of every save of a record set whose rows have distinct keys
C29_DistinctKeysSaved ==
    \/ ret.op # "saveToFile"
    \/ \E i, j \in 1..Len(ret.cached0) :
           i # j /\ ret.cached0[i].refresh_token = ret.cached0[j].refresh_token
    \/ SavedAsClaimed

\* a disabled row with the key of an eligible record is written as it was,
\* not as the eligible record
C29_MatchingRowNotReplaced ==
    /\ ret.op = "saveToFile"
    /\ ~ret.env
    /\ ret.writable
    /\ Len(ret.store1) = 2
    /\ Len(ret.eligible0) = 1
    /\ ret.store1[2].refresh_token = ret.eligible0[1].refresh_token
    /\ ret.store1[2] # ret.eligible0[1]
    /\ ret.store1[2] = ret.cached0[2]

\* a save that wrote a refreshed record and passed a disabled row through
C29_SavedOneKeptOne ==
    /\ ret.op = "saveToFile"
    /\ ~ret.env
    /\ ret.writable
    /\ Len(ret.store1) = 2
    /\ Len(ret.eligible0) = 1
    /\ ret.store1[1] # ret.store0[1]
    /\ ret.store1[1] = ret.eligible0[1]
    /\ ret.store1[2] = ret.store0[2]
    /\ ret.store1[2].refresh_token # ret.store1[1].refresh_token
    /\ ~ret.store1[2].enable

C29_EnvSaveWritesNothing ==
    ret.op = "saveToFile" /\ ret.env /\ Len(ret.eligible0) > 0

\* a call that reads the source while it cannot be read or parsed
FailedLoad ==
    /\ ~srcOk
    /\ \/ ForceReload
       \/ GetToken
       \/ ReadsSource /\ (LoadTokens \/ LoadTokens2 \/ GetToken2 \/ GetTokenCount)

C30_CountZeroAfterFailure ==
    /\ ~srcOk
    /\ ret.op = "getTokenCount"
    /\ ret.result = 0
    /\ \E i \in 1..Len(store) : store[i].enable

\* C31: a getToken never returns a record whose key was disabled before.
C31_DisabledNeverReturned ==
    (ret.op = "getToken" /\ ret.result # Null) => ret.key \notin hist.disabled

\* it holds when the records come from the file
C31_DisabledInFileNeverReturned ==
    (~envSet /\ ret.op = "getToken" /\ ret.result # Null)
        => ret.key \notin hist.disabled

\* from the file: a record was disabled and a later getToken gave another one
C31_OtherRecordAfterDisable ==
    /\ ~envSet
    /\ hist.disabled # {}
    /\ ret.op = "getToken"
    /\ ret.result # Null

\* from the environment: the disabled record is given again
C31_DisabledEnvRecordReturned ==
    /\ envSet
    /\ ret.op = "getToken"
    /\ ret.result # Null
    /\ ret.key \in hist.disabled

\* C32: with two getToken calls interleaved at their awaits, currentIndex is
\* never NaN and, while the list is not empty, is an index of the list.
C32_CursorValidWhenInterleaved ==
    classDef = 1 =>
        /\ currentIndex # NaN
        /\ Len(tokens) > 0 => currentIndex \in 0..(Len(tokens) - 1)

\* a call resumed from its refresh after the other one emptied the list
C32_ResumedOnEmptyList ==
    /\ classDef = 1
    /\ currentIndex = NaN
    /\ tokens = <<>>
    /\ ret.op = "getToken"
    /\ ret.result # Null

\* C33: within one generateAssistantResponse call every event the callback
\* got comes from the response of one credential: after an attempt that
\* delivered events, no later attempt delivers any.
C33_EventsOfOneAttempt ==
    \A i, j \in 1..Len(events) : events[i].attempt = events[j].attempt

\* the first attempt broke after a text event, the second one sent the same
\* text again and ended: the caller has it twice
C33_OutputRestarted ==
    /\ StreamEnded
    /\ Len(events) = 2
    /\ events[1].attempt = 0
    /\ events[2].attempt = 1
    /\ events[1].ev = events[2].ev
    /\ events[1].ev.type = "text"

\* as long as no read fails, the events are those of one attempt
C33_OneAttemptWithoutReadError ==
    (\A i \in 1..Len(sent) : sent[i].attempt = sent[1].attempt)
        => C33_EventsOfOneAttempt

\* frame i starts a block that a content_block_stop of its index, written
\* before frame n, ends
StoppedBefore(i, n) ==
    \E j \in (i + 1)..(n - 1) :
        /\ IsSse(res.out[j], "content_block_stop")
        /\ res.out[j].index = res.out[i].index

\* every block started before the message_stop was stopped before it
AllBlocksStopped ==
    \A n \in 1..Len(res.out) :
        IsSse(res.out[n], "message_stop") =>
            \A i \in 1..(n - 1) :
                IsSse(res.out[i], "content_block_start") => StoppedBefore(i, n)

\* C34: in a streaming messages response every content_block_start is
\* followed, before the message_stop, by a content_block_stop of its index.
C34_EveryBlockStopped == MessagesStreaming => AllBlocksStopped

\* one response read whole, a thought and the finish signal in one line: the
\* thinking block is started and the message is stopped without stopping it
C34_ThinkingNeverStopped ==
    /\ MessagesStreamSucceeded
    /\ res.ended
    /\ Len(sent) = 1
    /\ Len(sent[1].lines) = 1
    /\ sent[1].lines[1] = DataLine(<<ThoughtPart("a")>>, TRUE)
    /\ IsSse(res.out[Len(res.out)], "message_stop")
    /\ \E i \in 1..Len(res.out) :
           /\ IsSse(res.out[i], "content_block_start")
           /\ res.out[i].block = "thinking"
           /\ ~StoppedBefore(i, Len(res.out))

\* the blocks are all stopped when the events came from one response and its
\* thinking was closed
C34_StoppedWhenThinkingClosed ==
    (/\ MessagesStreaming
     /\ \A i \in 1..Len(events) : events[i].attempt = events[1].attempt
     /\ ~handler.thinkingStarted)
        => AllBlocksStopped

\* the blocks started and not stopped by the frames before frame n
OpenBlocks(n) ==
    {res.out[i].index : i \in {k \in 1..(n - 1) :
        /\ IsSse(res.out[k], "content_block_start")
        /\ ~StoppedBefore(k, n)}}

\* C35: in a streaming messages response no content_block_start is written
\* while a started block is not yet stopped, and every content_block_delta
\* has the index of the one block that is open.
C35_OneOpenBlock ==
    MessagesStreaming =>
        \A n \in 1..Len(res.out) :
            /\ IsSse(res.out[n], "content_block_start") => OpenBlocks(n) = {}
            /\ IsSse(res.out[n], "content_block_delta") =>
                   OpenBlocks(n) = {res.out[n].index}

\* a text part, a function call and the finish signal in one line: the
\* tool_use block is started while the text block is open
C35_ToolUseInsideText ==
    /\ MessagesStreamSucceeded
    /\ Len(sent) = 1
    /\ sent[1].lines = <<DataLine(<<TextPart("c"), CallPart("t1", "search", <<>>)>>, TRUE)>>
    /\ \E n \in 1..Len(res.out) :
           /\ IsSse(res.out[n], "content_block_start")
           /\ res.out[n].block = "tool_use"
           /\ OpenBlocks(n) = {0}

\* thinking and tool_use blocks alone are never open together
C35_OneOpenBlockBeforeText ==
    (MessagesStreaming /\ handler.textBlockIndex < 0
        /\ \A i \in 1..Len(events) : events[i].attempt = events[1].attempt)
    => \A n \in 1..Len(res.out) :
            /\ IsSse(res.out[n], "content_block_start") => OpenBlocks(n) = {}
            /\ IsSse(res.out[n], "content_block_delta") =>
                   OpenBlocks(n) = {res.out[n].index}

\* the function calls of the stream read to its end, and those delivered
CallsReceived == CallsOf(UpstreamParts(LastAttempt, 1), 1)
CallsGiven ==
    LET tes == ToolCallEvents(LastAttempt) IN CallsDelivered(tes, Len(tes))

\* C36: when processStreamResponse returns at the end of the stream, every
\* function call the upstream sent was delivered in a tool_calls event and
\* the buffer is empty.
C36_EveryCallDelivered ==
    StreamEnded => (psr.toolCalls = <<>> /\ CallsGiven = CallsReceived)

\* a function call whose line arrived whole, and no finish signal after it:
\* the stream ended with the call in the buffer
C36_CallLeftInBuffer ==
    /\ StreamEnded
    /\ Len(sent) = 1
    /\ sent[1].lines = <<DataLine(<<CallPart("t1", "search", <<>>)>>, FALSE)>>
    /\ events = <<>>
    /\ psr.toolCalls # <<>>

\* a function call whose line came in two reads, then the finish signal: the
\* call was not even buffered
C36_CallOfCutLineLost ==
    /\ StreamEnded
    /\ Len(sent) = 2
    /\ sent[1].lines = <<CutLine(<<CallPart("t1", "search", <<>>)>>, FALSE)>>
    /\ sent[2].attempt = sent[1].attempt
    /\ sent[2].lines = <<DataLine(<<>>, TRUE)>>
    /\ events = <<>>
    /\ psr.toolCalls = <<>>

\* with whole lines, the calls not delivered are those still in the buffer
C36_WholeLinesDeliveredOrBuffered ==
    (StreamEnded /\ NoLineCut) => CallsGiven \o psr.toolCalls = CallsReceived

\* the data lines the upstream sent in attempt a from read i on, each one in
\* one piece
RECURSIVE LinesOf(_, _)
LinesOf(a, i) ==
    IF i > Len(sent) THEN <<>>
    ELSE (IF sent[i].attempt = a
          THEN LET ls == ArrivedLines(i)
               IN [k \in 1..Len(ls) |->
                      IF ls[k].cut THEN DataLine(ls[k].parts, ls[k].finishReason)
                      ELSE ls[k]]
          ELSE <<>>)
         \o LinesOf(a, i + 1)

\* what processStreamResponse delivers when they all come with one read
InOneRead(a) ==
    LET out == OnChunk(NoPsr, LinesOf(a, 1), 1).out
    IN [k \in 1..Len(out) |-> out[k].ev]

\* C37: the events delivered for a stream are those delivered for the same
\* data lines arriving in a single read, wherever the reads split the stream.
C37_SameEventsHoweverSplit ==
    StreamEnded => EventsOf(LastAttempt) = InOneRead(LastAttempt)

\* a text line that the end of the first read cuts: no event, while the line
\* in one piece delivers its text
C37_CutTextLineLost ==
    /\ StreamEnded
    /\ Len(sent) = 2
    /\ sent[1].lines = <<CutLine(<<TextPart("c")>>, FALSE)>>
    /\ sent[2].attempt = sent[1].attempt
    /\ events = <<>>
    /\ InOneRead(LastAttempt) = <<Text("c")>>

\* reads that split the stream between its lines deliver the same events
C37_SameEventsSplitAtLines ==
    (StreamEnded /\ NoLineCut) => EventsOf(LastAttempt) = InOneRead(LastAttempt)

\* two reads of whole lines: a thought in the first, a text in the second
C37_TwoReadsOfWholeLines ==
    /\ StreamEnded
    /\ NoLineCut
    /\ Len(sent) = 2
    /\ sent[2].attempt = sent[1].attempt
    /\ EventsOf(LastAttempt) = <<Thinking(ThinkOpen), Thinking("a"),
                                 Thinking(ThinkClose), Text("c")>>

\* C38: the usage counter of every key is the number of times a record of
\* that key was given to a caller by getToken or getTokenByIndex.
C38_UsageCountsReturns ==
    \A k \in Keys : usageStats[k] = hist.given[k]

\* getTokenByIndex gave a record whose refresh had failed: given, not counted
C38_GivenAfterFailedRefresh ==
    /\ ret.op = "getTokenByIndex"
    /\ ret.result # Null
    /\ ret.refreshes = 1
    /\ hist.given[KeyOf(TM, ret.result)] = 1
    /\ usageStats[KeyOf(TM, ret.result)] = 0

\* the second getToken gave its first record after every refresh had failed
C38_FallbackNotCounted ==
    /\ ret.op = "getToken"
    /\ ret.def = 2
    /\ ret.result # Null
    /\ ret.log # <<>>
    /\ \A i \in 1..Len(ret.log) : ~ret.log[i].ok
    /\ hist.given[ret.key] > usageStats[ret.key]

\* the first getToken counts every record it gives
C38_FirstGetTokenCounts ==
    classDef = 1 => \A k \in Keys : usageStats[k] = hist.given[k]

\* the first getToken gave a record twice and counted it twice
C38_GivenTwiceCountedTwice ==
    /\ classDef = 1
    /\ \E k \in Keys : hist.given[k] = 2 /\ usageStats[k] = 2

====
